---- MODULE Spec2Model ----
(***************************************************************************)
(* The messaging core of Tilda-staff: the remote store (threads, messages, *)
(* polls, votes, read cursors, block edges) and the SupervisorMessages     *)
(* screen's client state (thread directory, message cache, optimistic      *)
(* send / poll / vote pipelines, realtime listener, reconciliation         *)
(* fetches), plus SendMessageDialog.sendToUser and profile.handleUnblock.  *)
(*                                                                         *)
(* Conventions.                                                            *)
(*  - A message row's id is its index in msgRows, which is kept in         *)
(*    created_at order (an insert appends). The code compares ids only for *)
(*    equality, so nothing depends on ids being ordered.                   *)
(*  - A temporary id `temp_${Date.now()}` of the k-th submitted operation  *)
(*    is the negative number -k (operations are user taps at distinct      *)
(*    times, so their temporary ids differ).                               *)
(*  - A render closure is modelled by the values it captured: a fetch      *)
(*    carries the blockedUserIds of the render whose fetchMessages was     *)
(*    called; the effect of useEffect([selectedThreadId]) keeps the        *)
(*    blockedUserIds of the render in which the thread was selected.       *)
(*  - An awaited remote call is split at the store's commit: what the      *)
(*    client does once the response arrives is a later step.               *)
(*  - A poll row is given the id of its message; a real option row is      *)
(*    known by its position.                                               *)
(*  - The queries of one fetchMessages / fetchThreads call read the store  *)
(*    in one step, when the call is issued.                                *)
(***************************************************************************)
EXTENDS Integers, Sequences, FiniteSets, TLC

\* ------------------------------------------------------------------ bounds
MaxMsgs == 2
MaxFetches == 2
MaxOps == 2
MaxVotes == 2
MaxThreads == 3
MaxBlocks == 2
MaxConvs == 2

\* ------------------------------------------------------- program constants
\* pollOptions starts as ['Yes', 'No']: a poll has two options, at positions 1, 2
NumOptions == 2

Me == "me"
Others == {"u1", "u2"}
Users == {Me} \cup Others
NoThread == 0
\* what the user can type into the composer
Texts == {"b "}
MyScope == "s1"

VARIABLES
  \* ---- the store
  threadRows,      \* Seq of [is_group, is_predefined, active, supervisor_id, parts]
  msgRows,         \* Seq of [thread_id, sender_id, body, attachments]
  pollRows,        \* message id -> [multiple_choice], for the messages with a poll
                   \* row (a poll row's id is its message's id)
  optionRows,      \* the poll ids whose option rows are inserted
  voteRows,        \* set of [poll_id, option_id, voter_id]
  readRows,        \* set of [thread_id, user_id, last_read_message_id]
  blockedRows,     \* set of <<blocked_by, blocked_user_id>>
  \* ---- SupervisorMessages state
  threads,         \* the cached thread directory: the ids of its threads (the
                   \* directory's order, by last message time, is not modelled)
  selectedThreadId,
  messages,        \* the message cache, newest first
  newMessageText,
  blockedUserIds,
  effectBlocked,   \* blockedUserIds as captured by the thread effect's closure
  rt,              \* message INSERT events queued for the subscribed listener
  fetches,         \* fetchMessages calls in flight
  dirFetches,      \* fetchThreads calls in flight
  ops,             \* handleSendMessage / handleCreatePoll calls, in submission order
  votes,           \* handleVote calls
  blocks,          \* addBlockedUser calls
  convs,           \* handleStartConversation / sendToUser calls
  \* ---- recipient search: the tables it reads and its state
  usersTable,             \* users: id -> row
  childrenInfo,           \* children_info rows
  coordinatorFacilities,  \* supervisor_coordinator_facilities: facility ids of the user
  facilities,             \* facilities rows of the user (supervisor_id = supervisorId)
  parentSearch,           \* the text of the search field
  parentOptions,          \* the recipients offered
  \* ---- history (not program state)
  ver,             \* number of changes of the store so far, read cursors apart,
                   \* counted where lastLoad is tracked
  lastLoad         \* the last fetchMessages call that reached its merge

store == <<threadRows, msgRows, pollRows, optionRows, voteRows, readRows, blockedRows>>
client == <<threads, selectedThreadId, messages, newMessageText, blockedUserIds,
            effectBlocked, rt, fetches, dirFetches, ops, votes, blocks, convs>>
client_but_votes == <<threads, selectedThreadId, messages, newMessageText,
                      blockedUserIds, effectBlocked, rt, fetches, dirFetches, ops,
                      blocks, convs>>
search == <<usersTable, childrenInfo, coordinatorFacilities, facilities,
            parentSearch, parentOptions>>
vars == <<store, client, search, ver, lastLoad>>

\* ----------------------------------------------------------------- helpers
\* ver after one more change of the store
Written == IF lastLoad.track THEN ver + 1 ELSE ver

RECURSIVE SetToSeqDesc(_)
\* the numbers of S, largest first
SetToSeqDesc(S) ==
  IF S = {} THEN <<>>
  ELSE LET m == CHOOSE x \in S : \A y \in S : y <= x
       IN <<m>> \o SetToSeqDesc(S \ {m})

FilterSeq(s, Keep(_)) == SelectSeq(s, Keep)

MapSeq(s, F(_)) == [i \in DOMAIN s |-> F(s[i])]

\* Array.prototype.findIndex, 1-based, 0 when absent
FindIndex(s, Test(_)) ==
  IF \E i \in DOMAIN s : Test(s[i])
  THEN CHOOSE i \in DOMAIN s : Test(s[i]) /\ \A j \in 1..(i - 1) : ~Test(s[j])
  ELSE 0

\* String.prototype.trim on the texts of the model
Trim(text) ==
  CASE text = "b " -> "b"
    [] text = " " -> ""
    [] OTHER -> text

TempId(k) == 0 - k
IsTemp(id) == id < 0

\* ------------------------------------------------------ types of the cache
NoPoll == <<>>

HasPoll(m) == m.poll # NoPoll

PollOf(m) == m.poll[1]

Message(id, content, sender, att, poll, readBy) ==
  [id |-> id, content |-> content, sender_id |-> sender, attachments |-> att,
   poll |-> poll, readBy |-> readBy]

\* option ids: a real option row is known by its position; the optimistic
\* poll's options are `temp_opt_${idx}`, the finalised poll's `new_opt_${i}`
OptTemp(i) == 10 + i
OptNew(i) == 20 + i

PollOption(id, position, nvotes, selected) ==
  [id |-> id, position |-> position, votes |-> nvotes, selected |-> selected]

Poll(id, multiple, options) ==
  [id |-> id, multiple_choice |-> multiple, options |-> options]

\* ----------------------------------------------------------- store queries
ThreadRow(group, predefined, active, scope, parts) ==
  [is_group |-> group, is_predefined |-> predefined, active |-> active,
   supervisor_id |-> scope, parts |-> parts]

MsgRow(t, sender, body, att) ==
  [thread_id |-> t, sender_id |-> sender, body |-> body, attachments |-> att]

ThreadIds == DOMAIN threadRows

\* .from('msg_thread_messages').eq('thread_id', t).order('created_at', desc)
ThreadMsgs(t) == SetToSeqDesc({i \in DOMAIN msgRows : msgRows[i].thread_id = t})

\* the read receipts of thread t: user -> last_read_message_id
ReadReceipts(t) == {r \in readRows : r.thread_id = t}

\* an insert that resolves no conflict
UpsertRead_Insert(rows, t, u, mid) ==
  rows \cup {[thread_id |-> t, user_id |-> u, last_read_message_id |-> mid]}

\* .upsert({thread_id, user_id, last_read_message_id}, onConflict: thread_id, user_id)
UpsertRead(rows, t, u, mid) ==
  {r \in rows : ~(r.thread_id = t /\ r.user_id = u)}
    \cup {[thread_id |-> t, user_id |-> u, last_read_message_id |-> mid]}

BlockedBy(u) == {e[2] : e \in {b \in blockedRows : b[1] = u}}

\* The follow-up queries of fetchMessages whose answer can be an error the code
\* does not read (`const { data } = await ...`): the answer then counts as empty.
FollowUps == {"reads", "polls", "options", "votes"}

\* the poll object fetchMessages assembles for message mid, the answers of the
\* queries in `lost` being errors
AssemblePollWith(mid, lost) ==
  LET opts == IF mid \in optionRows /\ "options" \notin lost THEN 1..NumOptions ELSE {}
      votesData == IF "votes" \in lost THEN {} ELSE voteRows
      relevantVotes(o) == {v \in votesData : v.poll_id = mid /\ v.option_id = o}
  IN Poll(mid, pollRows[mid].multiple_choice,
          [o \in opts |->
             PollOption(o, o, Cardinality(relevantVotes(o)),
                        \E v \in relevantVotes(o) : v.voter_id = Me)])

\* the poll object fetchMessages assembles for message mid
AssemblePoll(mid) == AssemblePollWith(mid, {})

\* a readBy that takes the messages newer than the cursor's instead
FormatMessagesWith_Newer(t, blocked, lost) ==
  LET msgs == ThreadMsgs(t)
      keep(i) == msgRows[i].sender_id = Me \/ msgRows[i].sender_id \notin blocked
      filteredMsgs == FilterSeq(msgs, keep)
      idx(mid) == FindIndex(filteredMsgs, LAMBDA x : x = mid)
      readBy(mid) ==
        {r.user_id : r \in
           {r \in (IF "reads" \in lost THEN {} ELSE ReadReceipts(t)) :
              /\ r.user_id # Me
              /\ idx(r.last_read_message_id) # 0
              /\ idx(mid) # 0
              /\ idx(mid) <= idx(r.last_read_message_id)}}
      fmt(mid) ==
        Message(mid, msgRows[mid].body, msgRows[mid].sender_id,
                msgRows[mid].attachments,
                IF mid \in DOMAIN pollRows /\ "polls" \notin lost
                THEN <<AssemblePollWith(mid, lost)>> ELSE NoPoll,
                readBy(mid))
  IN MapSeq(filteredMsgs, fmt)

\* a derivation of readBy that looks up the cursors in the unfiltered list
FormatMessagesWith_Unfiltered(t, blocked, lost) ==
  LET msgs == ThreadMsgs(t)
      keep(i) == msgRows[i].sender_id = Me \/ msgRows[i].sender_id \notin blocked
      filteredMsgs == FilterSeq(msgs, keep)
      idx(mid) == FindIndex(msgs, LAMBDA x : x = mid)
      readBy(mid) ==
        {r.user_id : r \in
           {r \in (IF "reads" \in lost THEN {} ELSE ReadReceipts(t)) :
              /\ r.user_id # Me
              /\ idx(r.last_read_message_id) # 0
              /\ idx(mid) # 0
              /\ idx(mid) >= idx(r.last_read_message_id)}}
      fmt(mid) ==
        Message(mid, msgRows[mid].body, msgRows[mid].sender_id,
                msgRows[mid].attachments,
                IF mid \in DOMAIN pollRows /\ "polls" \notin lost
                THEN <<AssemblePollWith(mid, lost)>> ELSE NoPoll,
                readBy(mid))
  IN MapSeq(filteredMsgs, fmt)

\* fetchMessages up to its setMessages: the list `formatted`, the answers of the
\* follow-up queries in `lost` being errors
FormatMessagesWith(t, blocked, lost) ==
  LET msgs == ThreadMsgs(t)
      keep(i) == msgRows[i].sender_id = Me \/ msgRows[i].sender_id \notin blocked
      filteredMsgs == FilterSeq(msgs, keep)
      idx(mid) == FindIndex(filteredMsgs, LAMBDA x : x = mid)
      readBy(mid) ==
        {r.user_id : r \in
           {r \in (IF "reads" \in lost THEN {} ELSE ReadReceipts(t)) :
              /\ r.user_id # Me
              /\ idx(r.last_read_message_id) # 0
              /\ idx(mid) # 0
              /\ idx(mid) >= idx(r.last_read_message_id)}}
      fmt(mid) ==
        Message(mid, msgRows[mid].body, msgRows[mid].sender_id,
                msgRows[mid].attachments,
                IF mid \in DOMAIN pollRows /\ "polls" \notin lost
                THEN <<AssemblePollWith(mid, lost)>> ELSE NoPoll,
                readBy(mid))
  IN MapSeq(filteredMsgs, fmt)

\* fetchMessages up to its setMessages, every query answered
FormatMessages(t, blocked) == FormatMessagesWith(t, blocked, {})

\* the oldest message of the thread instead
LatestMsg_Oldest(t) ==
  IF ThreadMsgs(t) = <<>> THEN 0 ELSE ThreadMsgs(t)[Len(ThreadMsgs(t))]

\* the id fetchMessages marks as read: msgs[0] of the unfiltered list, 0 if none
LatestMsg(t) == IF ThreadMsgs(t) = <<>> THEN 0 ELSE ThreadMsgs(t)[1]

\* a merge that always takes the authoritative entry
MergeMessages_Overwrite(prev, newMessages) == newMessages

\* the functional update of setMessages at the end of fetchMessages
MergeMessages(prev, newMessages) ==
  LET merge(newMsg) ==
        LET i == FindIndex(prev, LAMBDA p : p.id = newMsg.id)
        IN IF /\ ~HasPoll(newMsg)
              /\ i # 0
              /\ HasPoll(prev[i])
              /\ newMsg.content = ""
              /\ newMsg.attachments = 0
           THEN [newMsg EXCEPT !.poll = prev[i].poll]
           ELSE newMsg
  IN MapSeq(newMessages, merge)

\* a directory filter that also hides a direct thread from the blocked user
ListThreads_Symmetric(actor, scope, blockedIds) ==
  {t \in ThreadIds :
     /\ threadRows[t].supervisor_id = scope
     /\ ~(threadRows[t].is_predefined /\ ~threadRows[t].active)
     /\ actor \in threadRows[t].parts
     /\ \/ threadRows[t].is_group
        \/ threadRows[t].parts \ {actor} = {}
        \/ \E other \in threadRows[t].parts \ {actor} :
             other \notin blockedIds /\ <<other, actor>> \notin blockedRows}

\* fetchThreads' result for `actor` under scope `scope`, the actor's block list
\* being `blockedIds`. The result is kept as a set: its order (by last message
\* time) is not modelled.
ListThreads(actor, scope, blockedIds) ==
  LET validThreads ==
        {t \in ThreadIds :
           /\ threadRows[t].supervisor_id = scope
           /\ ~(threadRows[t].is_predefined /\ ~threadRows[t].active)
           /\ actor \in threadRows[t].parts}
      notBlocked(t) ==
        \/ threadRows[t].is_group
        \/ threadRows[t].parts \ {actor} = {}
        \/ \E other \in threadRows[t].parts \ {actor} : other \notin blockedIds
  IN {t \in validThreads : notBlocked(t)}

\* ------------------------------------------------- fetchMessages in flight
\* A call of fetchMessages(t) made by a closure that captured `blocked`. Its
\* queries read the store when the call is issued; its merge runs when the
\* response is handled (FetchResolve), unless the message query failed.
\* `by` names the caller: "effect" (the thread effect's body), "timer", "push"
\* (the listener's poll / vote / read handlers) or "handler" (a tap's handler).
FetchCallWith(t, blocked, by, lost) ==
  [thread_id |-> t, blocked |-> blocked, by |-> by, lost |-> lost,
   result |-> FormatMessagesWith(t, blocked, lost), latest |-> LatestMsg(t),
   ver |-> ver, after |-> lastLoad]

FetchCall(t, blocked, by) == FetchCallWith(t, blocked, by, {})

IssueFetch(t, blocked, by) ==
  /\ Cardinality(fetches) < MaxFetches
  /\ fetches' = fetches \cup {FetchCall(t, blocked, by)}

\* the response of call f arrives: mark read, merge
FetchResolve(f) ==
  /\ f \in fetches
  /\ fetches' = fetches \ {f}
  /\ messages' = MergeMessages(messages, f.result)
  /\ readRows' = IF f.latest # 0
                 THEN UpsertRead(readRows, f.thread_id, Me, f.latest)
                 ELSE readRows
  /\ lastLoad' = IF lastLoad.track
                 THEN [track |-> TRUE, ver |-> f.ver, thread_id |-> f.thread_id,
                       cache |-> messages']
                 ELSE lastLoad
  /\ UNCHANGED <<threadRows, msgRows, pollRows, optionRows, voteRows, blockedRows,
                 threads, selectedThreadId, newMessageText, blockedUserIds,
                 effectBlocked, rt, dirFetches, ops, votes, blocks, convs, ver>>
  /\ UNCHANGED search

\* the message query of call f failed: `throw error`, caught and logged
FetchFail(f) ==
  /\ f \in fetches
  /\ fetches' = fetches \ {f}
  /\ UNCHANGED <<store, threads, selectedThreadId, messages, newMessageText,
                 blockedUserIds, effectBlocked, rt, dirFetches, ops, votes, blocks,
                 convs, ver, lastLoad>>
  /\ UNCHANGED search

\* ------------------------------------------------- useEffect([selectedThreadId])
\* The user taps a thread of the directory, or the back arrow (NoThread). The
\* effect's cleanup drops the channels (and their undelivered events) and the
\* timer; its body fetches and subscribes for the new thread, or empties the cache.
SelectThread(t) ==
  /\ t \in threads \cup {NoThread}
  /\ t # selectedThreadId
  /\ selectedThreadId' = t
  /\ rt' = {}
  /\ IF t # NoThread
     THEN /\ IssueFetch(t, blockedUserIds, "effect")
          /\ effectBlocked' = blockedUserIds
          /\ UNCHANGED messages
     ELSE /\ messages' = <<>>
          /\ UNCHANGED <<fetches, effectBlocked>>
  /\ UNCHANGED <<store, threads, newMessageText, blockedUserIds, dirFetches, ops,
                 votes, blocks, convs, ver, lastLoad>>
  /\ UNCHANGED search

\* an interval that refetches at every tick
TimerFetch_EveryTick ==
  /\ selectedThreadId # NoThread
  /\ IssueFetch(selectedThreadId, effectBlocked, "timer")
  /\ UNCHANGED <<store, threads, selectedThreadId, messages, newMessageText,
                 blockedUserIds, effectBlocked, rt, dirFetches, ops, votes, blocks,
                 convs, ver, lastLoad>>
  /\ UNCHANGED search

\* setInterval(5000): refetch while a cached message carries a poll
TimerFetch ==
  /\ selectedThreadId # NoThread
  /\ \E i \in DOMAIN messages : HasPoll(messages[i])
  /\ IssueFetch(selectedThreadId, effectBlocked, "timer")
  /\ UNCHANGED <<store, threads, selectedThreadId, messages, newMessageText,
                 blockedUserIds, effectBlocked, rt, dirFetches, ops, votes, blocks,
                 convs, ver, lastLoad>>
  /\ UNCHANGED search

\* A change event on msg_poll_votes (any poll, any voter: the channel has no
\* filter) or on msg_thread_reads of this thread reaches the listener.
PushFetch ==
  /\ selectedThreadId # NoThread
  /\ IssueFetch(selectedThreadId, effectBlocked, "push")
  /\ UNCHANGED <<store, threads, selectedThreadId, messages, newMessageText,
                 blockedUserIds, effectBlocked, rt, dirFetches, ops, votes, blocks,
                 convs, ver, lastLoad>>
  /\ UNCHANGED search

\* the same event, some follow-up queries of the refetch being answered by errors
PushFetchLossy(lost) ==
  /\ selectedThreadId # NoThread
  /\ lost \subseteq FollowUps /\ lost # {}
  /\ Cardinality(fetches) < MaxFetches
  /\ fetches' = fetches \cup {FetchCallWith(selectedThreadId, effectBlocked, "push", lost)}
  /\ UNCHANGED <<store, threads, selectedThreadId, messages, newMessageText,
                 blockedUserIds, effectBlocked, rt, dirFetches, ops, votes, blocks,
                 convs, ver, lastLoad>>
  /\ UNCHANGED search

\* ------------------------------------------------------- message inserts
\* The store commits a message row; the subscribed listener is sent its event.
InsertMsg(t, sender, body, att) ==
  /\ Len(msgRows) < MaxMsgs
  /\ msgRows' = Append(msgRows, MsgRow(t, sender, body, att))
  /\ rt' = IF t = selectedThreadId THEN rt \cup {Len(msgRows) + 1} ELSE rt
  /\ ver' = Written

\* another participant of thread t sends a text or a file
OtherSend(u, t, body, att) ==
  /\ t \in ThreadIds
  /\ u \in threadRows[t].parts \ {Me}
  /\ body # "" \/ att # 0
  /\ InsertMsg(t, u, body, att)
  /\ UNCHANGED <<threadRows, pollRows, optionRows, voteRows, readRows, blockedRows,
                 threads, selectedThreadId, messages, newMessageText, blockedUserIds,
                 effectBlocked, fetches, dirFetches, ops, votes, blocks, convs,
                 lastLoad>>
  /\ UNCHANGED search

\* the listener's handler of a msg_thread_messages INSERT event
RealtimeInsert(mid) ==
  /\ mid \in rt
  /\ rt' = rt \ {mid}
  /\ LET newMsg == msgRows[mid]
     IN IF newMsg.body = "" /\ newMsg.attachments = 0
        THEN UNCHANGED messages
        ELSE IF newMsg.sender_id # Me /\ newMsg.sender_id \in effectBlocked
        THEN UNCHANGED messages
        ELSE IF \E i \in DOMAIN messages : messages[i].id = mid
        THEN UNCHANGED messages
        ELSE messages' = <<Message(mid, newMsg.body, newMsg.sender_id,
                                   newMsg.attachments, NoPoll, {})>> \o messages
  /\ UNCHANGED <<store, threads, selectedThreadId, newMessageText, blockedUserIds,
                 effectBlocked, fetches, dirFetches, ops, votes, blocks, convs, ver,
                 lastLoad>>
  /\ UNCHANGED search

\* Participant u of thread t loads the thread on a device of its own: that
\* fetchMessages marks the newest message as read by u.
OtherRead(u, t) ==
  /\ t \in ThreadIds
  /\ u \in threadRows[t].parts \ {Me}
  /\ LatestMsg(t) # 0
  /\ readRows' = UpsertRead(readRows, t, u, LatestMsg(t))
  /\ readRows' # readRows
  /\ UNCHANGED <<threadRows, msgRows, pollRows, optionRows, voteRows, blockedRows,
                 client, ver, lastLoad>>
  /\ UNCHANGED search

\* ------------------------------------------------------ handleSendMessage
Op(kind, pc, text, t, id, blocked, multiple) ==
  [kind |-> kind, pc |-> pc, text |-> text, thread_id |-> t, id |-> id,
   blocked |-> blocked, multiple_choice |-> multiple]

\* the user edits the composer
TypeText(text) ==
  /\ text \in Texts
  /\ selectedThreadId # NoThread
  /\ newMessageText # text
  /\ newMessageText' = text
  /\ UNCHANGED <<store, threads, selectedThreadId, messages, blockedUserIds,
                 effectBlocked, rt, fetches, dirFetches, ops, votes, blocks, convs,
                 ver, lastLoad>>
  /\ UNCHANGED search

\* "You have blocked this user": the open thread is a direct thread of the
\* directory whose other participant is blocked
SendRefused ==
  /\ selectedThreadId \in threads
  /\ ~threadRows[selectedThreadId].is_group
  /\ \E other \in threadRows[selectedThreadId].parts \ {Me} : other \in blockedUserIds

\* the synchronous part: clear the composer, insert the placeholder (the
\* directory entry's preview and position change too; its membership does not)
HandleSendMessage ==
  /\ Trim(newMessageText) # ""
  /\ selectedThreadId # NoThread
  /\ ~SendRefused
  /\ Len(ops) < MaxOps
  /\ newMessageText' = ""
  /\ messages' = <<Message(TempId(Len(ops) + 1), Trim(newMessageText), Me, 0,
                           NoPoll, {})>> \o messages
  /\ ops' = Append(ops, Op("text", "insert", Trim(newMessageText), selectedThreadId,
                           0, blockedUserIds, FALSE))
  /\ UNCHANGED <<store, threads, selectedThreadId, blockedUserIds, effectBlocked, rt,
                 fetches, dirFetches, votes, blocks, convs, ver, lastLoad>>
  /\ UNCHANGED search

\* the store commits the insert of send k
SendCommit(k) ==
  /\ k \in DOMAIN ops
  /\ ops[k].kind = "text" /\ ops[k].pc = "insert"
  /\ InsertMsg(ops[k].thread_id, Me, ops[k].text, 0)
  /\ ops' = [ops EXCEPT ![k].pc = "committed", ![k].id = Len(msgRows) + 1]
  /\ UNCHANGED <<threadRows, pollRows, optionRows, voteRows, readRows, blockedRows,
                 threads, selectedThreadId, messages, newMessageText, blockedUserIds,
                 effectBlocked, fetches, dirFetches, votes, blocks, convs, lastLoad>>
  /\ UNCHANGED search

\* a completion that moves the confirmed entry to the head of the cache
ReplaceTempId_ToHead(prev, tempId, id) ==
  LET i == FindIndex(prev, LAMBDA m : m.id = tempId)
  IN IF i = 0 THEN prev
     ELSE <<[prev[i] EXCEPT !.id = id]>> \o FilterSeq(prev, LAMBDA m : m.id # tempId)

\* a completion that leaves the placeholder as it is
ReplaceTempId_Kept(prev, tempId, id) == prev

\* prev.map(m => m.id === tempId ? {...m, id: data.id} : m)
ReplaceTempId(prev, tempId, id) ==
  MapSeq(prev, LAMBDA m : IF m.id = tempId THEN [m EXCEPT !.id = id] ELSE m)

\* a catch that leaves the cache as it is
RemoveTemp_Kept(prev, tempId) == prev

\* prev.filter(m => m.id !== tempId)
RemoveTemp(prev, tempId) == FilterSeq(prev, LAMBDA m : m.id # tempId)

\* the insert's response arrives: the placeholder takes the real id
SendSuccess(k) ==
  /\ k \in DOMAIN ops
  /\ ops[k].kind = "text" /\ ops[k].pc = "committed"
  /\ messages' = ReplaceTempId(messages, TempId(k), ops[k].id)
  /\ ops' = [ops EXCEPT ![k].pc = "done"]
  /\ UNCHANGED <<store, threads, selectedThreadId, newMessageText, blockedUserIds,
                 effectBlocked, rt, fetches, dirFetches, votes, blocks, convs, ver,
                 lastLoad>>
  /\ UNCHANGED search

\* the insert fails: drop the placeholder, restore the text
SendFail(k) ==
  /\ k \in DOMAIN ops
  /\ ops[k].kind = "text" /\ ops[k].pc = "insert"
  /\ messages' = RemoveTemp(messages, TempId(k))
  /\ newMessageText' = ops[k].text
  /\ ops' = [ops EXCEPT ![k].pc = "failed"]
  /\ UNCHANGED <<store, threads, selectedThreadId, blockedUserIds, effectBlocked, rt,
                 fetches, dirFetches, votes, blocks, convs, ver, lastLoad>>
  /\ UNCHANGED search

\* -------------------------------------------------------- handleCreatePoll
\* setUploading(true) .. finally setUploading(false): the create button is
\* disabled while a poll creation awaits its writes
uploading ==
  \E k \in DOMAIN ops : ops[k].kind = "poll" /\ ops[k].pc \in {"msg", "poll", "opts", "final"}

TempPoll(k, multiple) ==
  Poll(TempId(k), multiple, [i \in 1..NumOptions |-> PollOption(OptTemp(i), i, 0, FALSE)])

FinalPoll(pollId, multiple) ==
  Poll(pollId, multiple, [i \in 1..NumOptions |-> PollOption(OptNew(i), i, 0, FALSE)])

\* prev.map(m => m.id === tempId ? finalMsg : m)
ReplaceTemp(prev, tempId, finalMsg) ==
  MapSeq(prev, LAMBDA m : IF m.id = tempId THEN finalMsg ELSE m)

\* the synchronous part (the question is not empty): insert the optimistic poll
\* message
HandleCreatePoll(multiple) ==
  /\ selectedThreadId # NoThread
  /\ ~uploading
  /\ Len(ops) < MaxOps
  /\ messages' = <<Message(TempId(Len(ops) + 1), "", Me, 0,
                           <<TempPoll(Len(ops) + 1, multiple)>>, {})>> \o messages
  /\ ops' = Append(ops, Op("poll", "msg", "", selectedThreadId, 0, blockedUserIds,
                           multiple))
  /\ UNCHANGED <<store, threads, selectedThreadId, newMessageText, blockedUserIds,
                 effectBlocked, rt, fetches, dirFetches, votes, blocks, convs, ver,
                 lastLoad>>
  /\ UNCHANGED search

\* first create: the empty-body message
PollCommitMsg(k) ==
  /\ k \in DOMAIN ops
  /\ ops[k].kind = "poll" /\ ops[k].pc = "msg"
  /\ InsertMsg(ops[k].thread_id, Me, "", 0)
  /\ ops' = [ops EXCEPT ![k].pc = "poll", ![k].id = Len(msgRows) + 1]
  /\ UNCHANGED <<threadRows, pollRows, optionRows, voteRows, readRows, blockedRows,
                 threads, selectedThreadId, messages, newMessageText, blockedUserIds,
                 effectBlocked, fetches, dirFetches, votes, blocks, convs, lastLoad>>
  /\ UNCHANGED search

\* second create: the poll row referencing the message
PollCommitPoll(k) ==
  /\ k \in DOMAIN ops
  /\ ops[k].kind = "poll" /\ ops[k].pc = "poll"
  /\ pollRows' = pollRows @@ (ops[k].id :> [multiple_choice |-> ops[k].multiple_choice])
  /\ ver' = Written
  /\ ops' = [ops EXCEPT ![k].pc = "opts"]
  /\ UNCHANGED <<threadRows, msgRows, optionRows, voteRows, readRows, blockedRows,
                 threads, selectedThreadId, messages, newMessageText, blockedUserIds,
                 effectBlocked, rt, fetches, dirFetches, votes, blocks, convs,
                 lastLoad>>
  /\ UNCHANGED search

\* third create: the option rows referencing the poll
PollCommitOptions(k) ==
  /\ k \in DOMAIN ops
  /\ ops[k].kind = "poll" /\ ops[k].pc = "opts"
  /\ optionRows' = optionRows \cup {ops[k].id}
  /\ ver' = Written
  /\ ops' = [ops EXCEPT ![k].pc = "final"]
  /\ UNCHANGED <<threadRows, msgRows, pollRows, voteRows, readRows, blockedRows,
                 threads, selectedThreadId, messages, newMessageText, blockedUserIds,
                 effectBlocked, rt, fetches, dirFetches, votes, blocks, convs,
                 lastLoad>>
  /\ UNCHANGED search

\* the options' response arrives: the placeholder becomes the final message;
\* a fetch is scheduled one second later
PollFinal(k) ==
  /\ k \in DOMAIN ops
  /\ ops[k].kind = "poll" /\ ops[k].pc = "final"
  /\ messages' = ReplaceTemp(messages, TempId(k),
                             Message(ops[k].id, "", Me, 0,
                                     <<FinalPoll(ops[k].id, ops[k].multiple_choice)>>, {}))
  /\ ops' = [ops EXCEPT ![k].pc = "timeout"]
  /\ UNCHANGED <<store, threads, selectedThreadId, newMessageText, blockedUserIds,
                 effectBlocked, rt, fetches, dirFetches, votes, blocks, convs, ver,
                 lastLoad>>
  /\ UNCHANGED search

\* setTimeout(() => fetchMessages(selectedThreadId, false), 1000), both captured
\* by the closure of the tap
PollTimeoutFetch(k) ==
  /\ k \in DOMAIN ops
  /\ ops[k].kind = "poll" /\ ops[k].pc = "timeout"
  /\ IssueFetch(ops[k].thread_id, ops[k].blocked, "handler")
  /\ ops' = [ops EXCEPT ![k].pc = "done"]
  /\ UNCHANGED <<store, threads, selectedThreadId, messages, newMessageText,
                 blockedUserIds, effectBlocked, rt, dirFetches, votes, blocks, convs,
                 ver, lastLoad>>
  /\ UNCHANGED search

\* one of the three creates fails: alert, remove the placeholder, nothing else
PollFail(k) ==
  /\ k \in DOMAIN ops
  /\ ops[k].kind = "poll" /\ ops[k].pc \in {"msg", "poll", "opts"}
  /\ messages' = RemoveTemp(messages, TempId(k))
  /\ ops' = [ops EXCEPT ![k].pc = "failed"]
  /\ UNCHANGED <<store, threads, selectedThreadId, newMessageText, blockedUserIds,
                 effectBlocked, rt, fetches, dirFetches, votes, blocks, convs, ver,
                 lastLoad>>
  /\ UNCHANGED search

\* --------------------------------------------------------- uploadAttachment
\* A file has been picked: the handler starts reading and uploading it. The
\* cache is not touched; objects of the store's bucket are read by nothing here
\* and are not kept.
UploadAttachment ==
  /\ selectedThreadId # NoThread
  /\ Len(ops) < MaxOps
  /\ ops' = Append(ops, Op("attachment", "upload", "", selectedThreadId, 0,
                           blockedUserIds, FALSE))
  /\ UNCHANGED <<store, threads, selectedThreadId, messages, newMessageText,
                 blockedUserIds, effectBlocked, rt, fetches, dirFetches, votes,
                 blocks, convs, ver, lastLoad>>
  /\ UNCHANGED search

\* storage.upload has stored the object
UploadStored(k) ==
  /\ k \in DOMAIN ops
  /\ ops[k].kind = "attachment" /\ ops[k].pc = "upload"
  /\ ops' = [ops EXCEPT ![k].pc = "insert"]
  /\ UNCHANGED <<store, threads, selectedThreadId, messages, newMessageText,
                 blockedUserIds, effectBlocked, rt, fetches, dirFetches, votes,
                 blocks, convs, ver, lastLoad>>
  /\ UNCHANGED search

\* the message row with the attachment is inserted
AttachCommit(k) ==
  /\ k \in DOMAIN ops
  /\ ops[k].kind = "attachment" /\ ops[k].pc = "insert"
  /\ InsertMsg(ops[k].thread_id, Me, "", 1)
  /\ ops' = [ops EXCEPT ![k].pc = "fetch", ![k].id = Len(msgRows) + 1]
  /\ UNCHANGED <<threadRows, pollRows, optionRows, voteRows, readRows, blockedRows,
                 threads, selectedThreadId, messages, newMessageText, blockedUserIds,
                 effectBlocked, fetches, dirFetches, votes, blocks, convs, lastLoad>>
  /\ UNCHANGED search

\* fetchMessages(selectedThreadId, false), of the closure of the pick
AttachFetch(k) ==
  /\ k \in DOMAIN ops
  /\ ops[k].kind = "attachment" /\ ops[k].pc = "fetch"
  /\ IssueFetch(ops[k].thread_id, ops[k].blocked, "handler")
  /\ ops' = [ops EXCEPT ![k].pc = "done"]
  /\ UNCHANGED <<store, threads, selectedThreadId, messages, newMessageText,
                 blockedUserIds, effectBlocked, rt, dirFetches, votes, blocks, convs,
                 ver, lastLoad>>
  /\ UNCHANGED search

\* the upload or the insert fails: alert, nothing else
AttachFail(k) ==
  /\ k \in DOMAIN ops
  /\ ops[k].kind = "attachment" /\ ops[k].pc \in {"upload", "insert"}
  /\ ops' = [ops EXCEPT ![k].pc = "failed"]
  /\ UNCHANGED <<store, threads, selectedThreadId, messages, newMessageText,
                 blockedUserIds, effectBlocked, rt, fetches, dirFetches, votes,
                 blocks, convs, ver, lastLoad>>
  /\ UNCHANGED search

\* ------------------------------------------------------------- fetchThreads
\* lastMessageMap: the first row per thread of the messages of those threads,
\* newest first (0: no message, last_message undefined)
LastMessageMap(threadIds) == [t \in threadIds |-> LatestMsg(t)]

\* A call of fetchThreads: its queries read the store when it is issued; its
\* setBlockedUserIds and setThreads run when the responses are handled. The
\* previews it returns are not kept in `threads`.
DirCall ==
  [threads |-> ListThreads(Me, MyScope, BlockedBy(Me)), blocked |-> BlockedBy(Me),
   last_message |-> LastMessageMap(ListThreads(Me, MyScope, BlockedBy(Me)))]

IssueDirFetch ==
  /\ Cardinality(dirFetches) < MaxFetches
  /\ dirFetches' = dirFetches \cup {DirCall}

\* useEffect(() => { fetchThreads(true) }, []): the screen mounts
FetchThreadsOnMount ==
  /\ IssueDirFetch
  /\ UNCHANGED <<store, threads, selectedThreadId, messages, newMessageText,
                 blockedUserIds, effectBlocked, rt, fetches, ops, votes, blocks, convs,
                 ver, lastLoad>>
  /\ UNCHANGED search

DirResolve(d) ==
  /\ d \in dirFetches
  /\ dirFetches' = dirFetches \ {d}
  /\ blockedUserIds' = d.blocked
  /\ threads' = d.threads
  /\ UNCHANGED <<store, selectedThreadId, messages, newMessageText, effectBlocked, rt,
                 fetches, ops, votes, blocks, convs, ver, lastLoad>>
  /\ UNCHANGED search

\* ----------------------------------------------------------- addBlockedUser
\* Long press on a cached message of another sender, then "Block": the insert
\* of the block edge is awaited first.
BlockTap(target) ==
  /\ target # Me
  /\ \E i \in DOMAIN messages : messages[i].sender_id = target
  /\ Len(blocks) < MaxBlocks
  /\ blocks' = Append(blocks, [target |-> target, pc |-> "insert",
                               thread_id |-> selectedThreadId,
                               blocked |-> blockedUserIds])
  /\ UNCHANGED <<store, threads, selectedThreadId, messages, newMessageText,
                 blockedUserIds, effectBlocked, rt, fetches, dirFetches, ops, votes,
                 convs, ver, lastLoad>>
  /\ UNCHANGED search

\* the store commits the edge (a duplicate is answered by an error the code ignores)
BlockCommit(b) ==
  /\ b \in DOMAIN blocks
  /\ blocks[b].pc = "insert"
  /\ blockedRows' = blockedRows \cup {<<Me, blocks[b].target>>}
  /\ ver' = IF blockedRows' # blockedRows THEN Written ELSE ver
  /\ blocks' = [blocks EXCEPT ![b].pc = "committed"]
  /\ UNCHANGED <<threadRows, msgRows, pollRows, optionRows, voteRows, readRows,
                 threads, selectedThreadId, messages, newMessageText, blockedUserIds,
                 effectBlocked, rt, fetches, dirFetches, ops, votes, convs, lastLoad>>
  /\ UNCHANGED search

\* the insert fails with another error: alert only
BlockFail(b) ==
  /\ b \in DOMAIN blocks
  /\ blocks[b].pc = "insert"
  /\ blocks' = [blocks EXCEPT ![b].pc = "failed"]
  /\ UNCHANGED <<store, threads, selectedThreadId, messages, newMessageText,
                 blockedUserIds, effectBlocked, rt, fetches, dirFetches, ops, votes,
                 convs, ver, lastLoad>>
  /\ UNCHANGED search

\* the response arrives: update the block list, purge the cache, refetch the
\* open thread with this closure's fetchMessages, refetch the directory
BlockApply(b) ==
  /\ b \in DOMAIN blocks
  /\ blocks[b].pc = "committed"
  /\ blockedUserIds' = blocks[b].blocked \cup {blocks[b].target}
  /\ messages' = FilterSeq(messages, LAMBDA m : m.sender_id # blocks[b].target)
  /\ IF blocks[b].thread_id # NoThread
     THEN IssueFetch(blocks[b].thread_id, blocks[b].blocked, "handler")
     ELSE UNCHANGED fetches
  /\ IssueDirFetch
  /\ blocks' = [blocks EXCEPT ![b].pc = "done"]
  /\ UNCHANGED <<store, threads, selectedThreadId, newMessageText, effectBlocked, rt,
                 ops, votes, convs, ver, lastLoad>>
  /\ UNCHANGED search

\* profile.tsx handleUnblock: delete the edge
HandleUnblock(target) ==
  /\ <<Me, target>> \in blockedRows
  /\ blockedRows' = blockedRows \ {<<Me, target>>}
  /\ ver' = Written
  /\ UNCHANGED <<threadRows, msgRows, pollRows, optionRows, voteRows, readRows,
                 client, lastLoad>>
  /\ UNCHANGED search

\* ----------------------------------------------------------------- handleVote
\* an optimistic update that decrements every other option of a single-choice poll
VoteOptions_DecrementAll(options, optionId, currentSelected, multiple) ==
  MapSeq(options, LAMBDA o :
    IF o.id = optionId
    THEN [o EXCEPT !.selected = ~currentSelected,
                   !.votes = IF currentSelected THEN o.votes - 1 ELSE o.votes + 1]
    ELSE IF ~multiple /\ ~currentSelected
    THEN [o EXCEPT !.selected = FALSE, !.votes = o.votes - 1]
    ELSE o)

\* the optimistic update of one poll's options
VoteOptions(options, optionId, currentSelected, multiple) ==
  MapSeq(options, LAMBDA o :
    IF o.id = optionId
    THEN [o EXCEPT !.selected = ~currentSelected,
                   !.votes = IF currentSelected THEN o.votes - 1 ELSE o.votes + 1]
    ELSE IF ~multiple /\ ~currentSelected /\ o.selected
    THEN [o EXCEPT !.selected = FALSE, !.votes = o.votes - 1]
    ELSE o)

\* setMessages(prev => prev.map(m => m.poll?.id === pollId ? ... : m))
VoteMessages(prev, pollId, optionId, currentSelected, multiple) ==
  MapSeq(prev, LAMBDA m :
    IF HasPoll(m) /\ PollOf(m).id = pollId
    THEN [m EXCEPT !.poll = <<[PollOf(m) EXCEPT !.options =
             VoteOptions(PollOf(m).options, optionId, currentSelected, multiple)]>>]
    ELSE m)

\* The user taps option o of the poll shown by cache entry i: the arguments are
\* what the rendered option shows. The optimistic update runs at once; the
\* remote writes follow.
VoteTap(i, o) ==
  /\ i \in DOMAIN messages
  /\ HasPoll(messages[i])
  /\ o \in DOMAIN PollOf(messages[i]).options
  /\ Len(votes) < MaxVotes
  /\ LET poll == PollOf(messages[i])
         opt == poll.options[o]
     IN /\ messages' = VoteMessages(messages, poll.id, opt.id, opt.selected,
                                    poll.multiple_choice)
        /\ votes' = Append(votes,
             [poll_id |-> poll.id, option_id |-> opt.id,
              currentSelected |-> opt.selected, multiple |-> poll.multiple_choice,
              thread_id |-> selectedThreadId, blocked |-> blockedUserIds,
              before |-> poll.options, rows |-> voteRows,
              pc |-> IF opt.selected THEN "deleteOne"
                     ELSE IF ~poll.multiple_choice THEN "deleteAll" ELSE "insert"])
  /\ UNCHANGED <<store, threads, selectedThreadId, newMessageText, blockedUserIds,
                 effectBlocked, rt, fetches, dirFetches, ops, blocks, convs, ver,
                 lastLoad>>
  /\ UNCHANGED search

\* .delete().match({poll_id, option_id, voter_id})
VoteDeleteOne(v) ==
  /\ v \in DOMAIN votes
  /\ votes[v].pc = "deleteOne"
  /\ voteRows' = voteRows \ {[poll_id |-> votes[v].poll_id,
                              option_id |-> votes[v].option_id, voter_id |-> Me]}
  /\ ver' = IF voteRows' # voteRows THEN Written ELSE ver
  /\ votes' = [votes EXCEPT ![v].pc = "fetch"]
  /\ UNCHANGED <<threadRows, msgRows, pollRows, optionRows, readRows, blockedRows,
                 client_but_votes, lastLoad>>
  /\ UNCHANGED search

\* a delete matching the poll alone
VoteDeleteAll_AnyVoter(v) ==
  /\ v \in DOMAIN votes
  /\ votes[v].pc = "deleteAll"
  /\ voteRows' = {r \in voteRows : r.poll_id # votes[v].poll_id}
  /\ ver' = IF voteRows' # voteRows THEN Written ELSE ver
  /\ votes' = [votes EXCEPT ![v].pc = "insert"]
  /\ UNCHANGED <<threadRows, msgRows, pollRows, optionRows, readRows, blockedRows,
                 client_but_votes, lastLoad>>
  /\ UNCHANGED search

\* .delete().match({poll_id, voter_id})
VoteDeleteAll(v) ==
  /\ v \in DOMAIN votes
  /\ votes[v].pc = "deleteAll"
  /\ voteRows' = {r \in voteRows : ~(r.poll_id = votes[v].poll_id /\ r.voter_id = Me)}
  /\ ver' = IF voteRows' # voteRows THEN Written ELSE ver
  /\ votes' = [votes EXCEPT ![v].pc = "insert"]
  /\ UNCHANGED <<threadRows, msgRows, pollRows, optionRows, readRows, blockedRows,
                 client_but_votes, lastLoad>>
  /\ UNCHANGED search

\* .insert({poll_id, option_id, voter_id}); the store holds a vote only for an
\* option row of a poll row (an optimistic poll's ids name no rows)
VoteInsert(v) ==
  /\ v \in DOMAIN votes
  /\ votes[v].pc = "insert"
  /\ voteRows' = IF /\ votes[v].poll_id \in DOMAIN pollRows
                    /\ votes[v].poll_id \in optionRows
                    /\ votes[v].option_id \in 1..NumOptions
                 THEN voteRows \cup {[poll_id |-> votes[v].poll_id,
                                      option_id |-> votes[v].option_id,
                                      voter_id |-> Me]}
                 ELSE voteRows
  /\ ver' = IF voteRows' # voteRows THEN Written ELSE ver
  /\ votes' = [votes EXCEPT ![v].pc = "fetch"]
  /\ UNCHANGED <<threadRows, msgRows, pollRows, optionRows, readRows, blockedRows,
                 client_but_votes, lastLoad>>
  /\ UNCHANGED search

\* A write of vote v is answered by an error: the awaited call resolves with
\* {error}, which the code does not read, and the handler goes on.
VoteWriteFail(v) ==
  /\ v \in DOMAIN votes
  /\ votes[v].pc \in {"deleteOne", "deleteAll", "insert"}
  /\ votes' = [votes EXCEPT ![v].pc = IF @ = "deleteAll" THEN "insert" ELSE "fetch"]
  /\ UNCHANGED <<store, client_but_votes, ver, lastLoad>>
  /\ UNCHANGED search

\* if (selectedThreadId) fetchMessages(selectedThreadId), both of the tap's closure
VoteFetch(v) ==
  /\ v \in DOMAIN votes
  /\ votes[v].pc = "fetch"
  /\ IF votes[v].thread_id # NoThread
     THEN IssueFetch(votes[v].thread_id, votes[v].blocked, "handler")
     ELSE UNCHANGED fetches
  /\ votes' = [votes EXCEPT ![v].pc = "done"]
  /\ UNCHANGED <<store, threads, selectedThreadId, messages, newMessageText,
                 blockedUserIds, effectBlocked, rt, dirFetches, ops, blocks, convs,
                 ver, lastLoad>>
  /\ UNCHANGED search

\* ------------------------------------------------- handleStartConversation
Conv(kind, target, text, pc, t, mine, dir) ==
  [kind |-> kind, target |-> target, text |-> text, pc |-> pc, thread_id |-> t,
   myThreadIds |-> mine, dir |-> dir]

NoDir == [threads |-> {}, blocked |-> {}]

\* threads.find(t => !t.is_group && has target && has me && participants.length === 2)
\* over the cached directory; 0 when nothing is found
ExistingInDirectory(target) ==
  LET found == {t \in threads :
                  /\ ~threadRows[t].is_group
                  /\ target \in threadRows[t].parts
                  /\ Me \in threadRows[t].parts
                  /\ Cardinality(threadRows[t].parts) = 2}
  IN IF found = {} THEN NoThread
     ELSE CHOOSE t \in found : \A x \in found : x <= t

\* "Start" in the new-conversation modal, for the selected recipient
HandleStartConversation(target, text) ==
  /\ target \in Others
  /\ Len(convs) < MaxConvs
  /\ LET existing == ExistingInDirectory(target)
     IN convs' = Append(convs,
          Conv("start", target, Trim(text),
               IF existing = NoThread THEN "create"
               ELSE IF Trim(text) # "" THEN "msg" ELSE "refresh",
               existing, {}, NoDir))
  /\ UNCHANGED <<store, threads, selectedThreadId, messages, newMessageText,
                 blockedUserIds, effectBlocked, rt, fetches, dirFetches, ops, votes,
                 blocks, ver, lastLoad>>
  /\ UNCHANGED search

\* insert into msg_threads: the new row has no participants yet; is_group is
\* left to the column default (a direct thread)
ConvCreateThread(c) ==
  /\ c \in DOMAIN convs
  /\ convs[c].pc = "create"
  /\ Len(threadRows) < MaxThreads
  /\ threadRows' = Append(threadRows, ThreadRow(FALSE, FALSE, TRUE, MyScope, {}))
  /\ ver' = Written
  /\ convs' = [convs EXCEPT ![c].pc = "parts", ![c].thread_id = Len(threadRows) + 1]
  /\ UNCHANGED <<msgRows, pollRows, optionRows, voteRows, readRows, blockedRows,
                 threads, selectedThreadId, messages, newMessageText, blockedUserIds,
                 effectBlocked, rt, fetches, dirFetches, ops, votes, blocks, lastLoad>>
  /\ UNCHANGED search

\* the thread insert fails: throw, alert, nothing else
ConvCreateFail(c) ==
  /\ c \in DOMAIN convs
  /\ convs[c].pc = "create"
  /\ convs' = [convs EXCEPT ![c].pc = "failed"]
  /\ UNCHANGED <<store, threads, selectedThreadId, messages, newMessageText,
                 blockedUserIds, effectBlocked, rt, fetches, dirFetches, ops, votes,
                 blocks, ver, lastLoad>>
  /\ UNCHANGED search

\* insert the two participant rows
ConvAddParticipants(c) ==
  /\ c \in DOMAIN convs
  /\ convs[c].pc = "parts"
  /\ threadRows' = [threadRows EXCEPT ![convs[c].thread_id].parts = {Me, convs[c].target}]
  /\ ver' = Written
  /\ convs' = [convs EXCEPT ![c].pc = IF convs[c].text # "" THEN "msg"
                                      ELSE IF convs[c].kind = "start" THEN "refresh"
                                      ELSE "done"]
  /\ UNCHANGED <<msgRows, pollRows, optionRows, voteRows, readRows, blockedRows,
                 threads, selectedThreadId, messages, newMessageText, blockedUserIds,
                 effectBlocked, rt, fetches, dirFetches, ops, votes, blocks, lastLoad>>
  /\ UNCHANGED search

\* insert the first message into the target thread
ConvSendMessage(c) ==
  /\ c \in DOMAIN convs
  /\ convs[c].pc = "msg"
  /\ InsertMsg(convs[c].thread_id, Me, convs[c].text, 0)
  /\ convs' = [convs EXCEPT ![c].pc = IF convs[c].kind = "start" THEN "refresh" ELSE "done"]
  /\ UNCHANGED <<threadRows, pollRows, optionRows, voteRows, readRows, blockedRows,
                 threads, selectedThreadId, messages, newMessageText, blockedUserIds,
                 effectBlocked, fetches, dirFetches, ops, votes, blocks, lastLoad>>
  /\ UNCHANGED search

\* await fetchThreads(): its queries read the store
ConvRefresh(c) ==
  /\ c \in DOMAIN convs
  /\ convs[c].pc = "refresh"
  /\ convs' = [convs EXCEPT ![c].pc = "select", ![c].dir = DirCall]
  /\ UNCHANGED <<store, threads, selectedThreadId, messages, newMessageText,
                 blockedUserIds, effectBlocked, rt, fetches, dirFetches, ops, votes,
                 blocks, ver, lastLoad>>
  /\ UNCHANGED search

\* fetchThreads returns (directory and block list set), then
\* setSelectedThreadId(targetThreadId) runs the thread effect
ConvSelect(c) ==
  /\ c \in DOMAIN convs
  /\ convs[c].pc = "select"
  /\ convs' = [convs EXCEPT ![c].pc = "done"]
  /\ threads' = convs[c].dir.threads
  /\ blockedUserIds' = convs[c].dir.blocked
  /\ IF convs[c].thread_id # selectedThreadId
     THEN /\ selectedThreadId' = convs[c].thread_id
          /\ rt' = {}
          /\ IssueFetch(convs[c].thread_id, blockedUserIds', "effect")
          /\ effectBlocked' = blockedUserIds'
     ELSE UNCHANGED <<selectedThreadId, rt, fetches, effectBlocked>>
  /\ UNCHANGED <<store, messages, newMessageText, dirFetches, ops, votes, blocks, ver,
                 lastLoad>>
  /\ UNCHANGED search

\* ------------------------------------------- SendMessageDialog.sendToUser
\* first query: the thread ids of the sender's participant rows
SendToUser(target) ==
  /\ target \in Others
  /\ Len(convs) < MaxConvs
  /\ convs' = Append(convs,
       Conv("dialog", target, "a", "find", NoThread,
            {t \in ThreadIds : Me \in threadRows[t].parts}, NoDir))
  /\ UNCHANGED <<store, threads, selectedThreadId, messages, newMessageText,
                 blockedUserIds, effectBlocked, rt, fetches, dirFetches, ops, votes,
                 blocks, ver, lastLoad>>
  /\ UNCHANGED search

\* second and third query: one participant row of the target among those
\* threads (limit(1), any of them), reused only if that thread is not a group
DialogFind(c, t) ==
  /\ c \in DOMAIN convs
  /\ convs[c].pc = "find"
  /\ LET shared == {x \in convs[c].myThreadIds : convs[c].target \in threadRows[x].parts}
     IN /\ IF shared = {} THEN t = NoThread ELSE t \in shared
        /\ convs' = IF t # NoThread /\ ~threadRows[t].is_group
                    THEN [convs EXCEPT ![c].pc = "msg", ![c].thread_id = t]
                    ELSE [convs EXCEPT ![c].pc = "create"]
  /\ UNCHANGED <<store, threads, selectedThreadId, messages, newMessageText,
                 blockedUserIds, effectBlocked, rt, fetches, dirFetches, ops, votes,
                 blocks, ver, lastLoad>>
  /\ UNCHANGED search

\* ------------------------------------------------------------ performSearch
\* Text of the directory is a sequence of letters. Ids of users are numbers,
\* 0 standing for a null manager_id.
Lower(c) == CASE c = "A" -> "a" [] c = "E" -> "e" [] c = "L" -> "l"
              [] c = "M" -> "m" [] OTHER -> c

LowerSeq(w) == [i \in DOMAIN w |-> Lower(w[i])]

\* column ILIKE %q%
ILike(text, q) ==
  \E i \in 0..(Len(text) - Len(q)) :
    SubSeq(LowerSeq(text), i + 1, i + Len(q)) = LowerSeq(q)

\* the place of a letter in the collation order; case is a lesser difference
\* that the names of the directory never come down to
Rank(c) ==
  CASE Lower(c) = " " -> 0 [] Lower(c) = "a" -> 1 [] Lower(c) = "e" -> 2
    [] Lower(c) = "i" -> 3 [] Lower(c) = "l" -> 4 [] Lower(c) = "m" -> 5
    [] Lower(c) = "n" -> 6 [] OTHER -> 7

RECURSIVE LocaleCompare(_, _)
\* a.localeCompare(b): negative, zero or positive
LocaleCompare(a, b) ==
  IF a = <<>> THEN (IF b = <<>> THEN 0 ELSE 0 - 1)
  ELSE IF b = <<>> THEN 1
  ELSE IF Rank(Head(a)) # Rank(Head(b)) THEN Rank(Head(a)) - Rank(Head(b))
  ELSE LocaleCompare(Tail(a), Tail(b))

RECURSIVE SetToSeqAsc(_)
\* the numbers of S, smallest first: the order in which the store answers
SetToSeqAsc(S) ==
  IF S = {} THEN <<>>
  ELSE LET m == CHOOSE x \in S : \A y \in S : x <= y
       IN <<m>> \o SetToSeqAsc(S \ {m})

UserRow(first, family, type, manager, deleted) ==
  [first_name |-> first, family_name |-> family, user_type |-> type,
   manager_id |-> manager, is_deleted |-> deleted]

ChildInfo(user, facility, deleted) ==
  [user_id |-> user, facility_id |-> facility, is_deleted |-> deleted]

\* { id, name: `${first_name} ${family_name}` }
ParentOption(id) ==
  [id |-> id,
   name |-> usersTable[id].first_name \o <<" ">> \o usersTable[id].family_name]

\* results left as pushed
SortByName_Unsorted(results) == results

RECURSIVE SortByName(_)
\* results.sort((a, b) => a.name.localeCompare(b.name)): a stable sort
SortByName(results) ==
  IF results = <<>> THEN <<>>
  ELSE LET rest == SortByName(Tail(results))
           x == Head(results)
           before == {i \in DOMAIN rest : LocaleCompare(rest[i].name, x.name) < 0}
           k == Cardinality(before)
       IN SubSeq(rest, 1, k) \o <<x>> \o SubSeq(rest, k + 1, Len(rest))

\* facilityIds: coordinated facilities and owned facilities that are not deleted
FacilityIds ==
  coordinatorFacilities \cup {f.id : f \in {g \in facilities : ~g.is_deleted}}

\* the same rows read without the facility filter
FacilityChildren_AnyFacility(ids) ==
  {ci.user_id : ci \in {r \in childrenInfo : r.user_id \in ids /\ ~r.is_deleted}}

\* children_info rows .in('user_id', ids).in('facility_id', facilityIds)
\* .eq('is_deleted', false): their user ids
FacilityChildren(ids) ==
  {ci.user_id : ci \in {r \in childrenInfo :
       r.user_id \in ids /\ r.facility_id \in FacilityIds /\ ~r.is_deleted}}

\* users matching first_name or family_name, not deleted
UserMatches(query) ==
  {u \in DOMAIN usersTable :
     /\ ~usersTable[u].is_deleted
     /\ \/ ILike(usersTable[u].first_name, query)
        \/ ILike(usersTable[u].family_name, query)}

\* part A: the managers of the matched children of the user's facilities
ParentsOfChildren(query) ==
  LET childMatches == {u \in UserMatches(query) : usersTable[u].user_type = "child"}
      validChildIds == FacilityChildren(childMatches)
      managerIds == {usersTable[c].manager_id :
                       c \in {d \in childMatches :
                                d \in validChildIds /\ usersTable[d].manager_id # 0}}
  IN managerIds \cap DOMAIN usersTable

\* part B: the matched parents and guardians having a child in the user's facilities
ValidParents(query) ==
  LET parentMatches == {u \in UserMatches(query) :
                          usersTable[u].user_type \in {"parent", "guardian"}}
      managedChildren == {c \in DOMAIN usersTable :
                            usersTable[c].manager_id \in parentMatches}
      validChildIdSet == FacilityChildren(managedChildren)
      validParentIds == {usersTable[c].manager_id :
                           c \in managedChildren \cap validChildIdSet}
  IN parentMatches \cap validParentIds

\* what performSearch hands to setParentOptions
PerformSearch(query) ==
  IF FacilityIds = {} THEN <<>>
  ELSE LET fromChildren == ParentsOfChildren(query)
           results == SetToSeqAsc(fromChildren)
                        \o SetToSeqAsc(ValidParents(query) \ fromChildren)
       IN SortByName([i \in DOMAIN results |-> ParentOption(results[i])])

\* the text of the search field changes
SetParentSearch(q) ==
  /\ q # parentSearch
  /\ parentSearch' = q
  /\ UNCHANGED <<store, client, usersTable, childrenInfo, coordinatorFacilities,
                 facilities, parentOptions, ver, lastLoad>>

\* the effect's timer, 500 ms after the last change of the text
SearchTimer ==
  /\ parentOptions' =
       IF Len(parentSearch) >= 2 THEN PerformSearch(parentSearch)
       ELSE IF Len(parentSearch) = 0 THEN <<>>
       ELSE parentOptions
  /\ UNCHANGED <<store, client, usersTable, childrenInfo, coordinatorFacilities,
                 facilities, parentSearch, ver, lastLoad>>

\* ------------------------------------------------------------ initial states
\* lastLoad records the last merged fetchMessages call (the store version it
\* read and the cache it left) in the specifications that switch tracking on;
\* a call in flight records, as `after`, the lastLoad of the moment it was issued
NoLoad(track) ==
  [track |-> track, ver |-> 0 - 1, thread_id |-> NoThread, cache |-> <<>>]

\* the screen after its mount: fetchThreads has loaded the directory and the
\* block list, no thread is open
InitClient ==
  /\ threads = ListThreads(Me, MyScope, BlockedBy(Me))
  /\ blockedUserIds = BlockedBy(Me)
  /\ effectBlocked = {}
  /\ selectedThreadId = NoThread
  /\ messages = <<>>
  /\ newMessageText = ""
  /\ usersTable = <<>>
  /\ childrenInfo = {}
  /\ coordinatorFacilities = {}
  /\ facilities = {}
  /\ parentSearch = <<>>
  /\ parentOptions = <<>>
  /\ rt = {}
  /\ fetches = {}
  /\ dirFetches = {}
  /\ ops = <<>>
  /\ votes = <<>>
  /\ blocks = <<>>
  /\ convs = <<>>
  /\ ver = 0
  /\ lastLoad = NoLoad(FALSE)

\* a direct thread with u1 holding one message of u1, and a group thread
InitChat ==
  /\ threadRows = <<ThreadRow(FALSE, FALSE, TRUE, MyScope, {Me, "u1"}),
                    ThreadRow(TRUE, FALSE, TRUE, MyScope, {Me, "u1", "u2"})>>
  /\ msgRows = <<MsgRow(1, "u1", "x", 0)>>
  /\ pollRows = <<>>
  /\ optionRows = {}
  /\ voteRows = {}
  /\ readRows = {}
  /\ blockedRows = {}
  /\ InitClient

\* the direct thread with u1 and the group thread, both empty
InitSend ==
  /\ threadRows = <<ThreadRow(FALSE, FALSE, TRUE, MyScope, {Me, "u1"}),
                    ThreadRow(TRUE, FALSE, TRUE, MyScope, {Me, "u1", "u2"})>>
  /\ msgRows = <<>>
  /\ pollRows = <<>>
  /\ optionRows = {}
  /\ voteRows = {}
  /\ readRows = {}
  /\ blockedRows = {}
  /\ InitClient

\* ---------------------------------------------------------- specifications
\* sending texts into the open direct thread
NextSend ==
  \/ SelectThread(1)
  \/ \E text \in Texts : TypeText(text)
  \/ HandleSendMessage
  \/ \E k \in 1..MaxOps : SendCommit(k) \/ SendSuccess(k) \/ SendFail(k)
  \/ \E mid \in 1..MaxMsgs : RealtimeInsert(mid)
  \/ PushFetch
  \/ \E f \in fetches : FetchResolve(f)
  \/ \E f \in fetches : FetchFail(f)

SpecSend == InitSend /\ [][NextSend]_vars

\* creating single-choice polls in the open direct thread, with timer and push
\* refetches
NextPoll ==
  \/ SelectThread(1)
  \/ HandleCreatePoll(FALSE)
  \/ \E k \in 1..MaxOps : PollCommitMsg(k)
  \/ \E k \in 1..MaxOps : PollCommitPoll(k)
  \/ \E k \in 1..MaxOps : PollCommitOptions(k)
  \/ \E k \in 1..MaxOps : PollFinal(k)
  \/ \E k \in 1..MaxOps : PollTimeoutFetch(k)
  \/ \E k \in 1..MaxOps : PollFail(k)
  \/ \E mid \in 1..MaxMsgs : RealtimeInsert(mid)
  \/ TimerFetch
  \/ PushFetch
  \/ \E f \in fetches : FetchResolve(f)
  \/ \E f \in fetches : FetchFail(f)

SpecPoll == InitChat /\ [][NextPoll]_vars

\* the merges and realtime inserts met while polls are created and u1 sends
\* texts: push refetches only, every fetch answered
NextMerge ==
  \/ SelectThread(1)
  \/ HandleCreatePoll(FALSE)
  \/ \E k \in 1..MaxOps : PollCommitMsg(k)
  \/ \E k \in 1..MaxOps : PollCommitPoll(k)
  \/ \E k \in 1..MaxOps : PollCommitOptions(k)
  \/ \E k \in 1..MaxOps : PollFinal(k)
  \/ \E k \in 1..MaxOps : PollTimeoutFetch(k)
  \/ \E k \in 1..MaxOps : PollFail(k)
  \/ OtherSend("u1", 1, "x", 0)
  \/ \E mid \in 1..MaxMsgs : RealtimeInsert(mid)
  \/ PushFetch
  \/ \E f \in fetches : FetchResolve(f)

SpecMerge == InitChat /\ [][NextMerge]_vars

\* a direct thread holding a single-choice poll of u1, on which u1 has voted
InitVote ==
  /\ threadRows = <<ThreadRow(FALSE, FALSE, TRUE, MyScope, {Me, "u1"})>>
  /\ msgRows = <<MsgRow(1, "u1", "", 0)>>
  /\ pollRows = (1 :> [multiple_choice |-> FALSE])
  /\ optionRows = {1}
  /\ voteRows = {[poll_id |-> 1, option_id |-> 1, voter_id |-> "u1"]}
  /\ readRows = {}
  /\ blockedRows = {}
  /\ InitClient

\* the same thread, u1 having read the poll's message
InitFault ==
  /\ threadRows = <<ThreadRow(FALSE, FALSE, TRUE, MyScope, {Me, "u1"})>>
  /\ msgRows = <<MsgRow(1, "u1", "", 0)>>
  /\ pollRows = (1 :> [multiple_choice |-> FALSE])
  /\ optionRows = {1}
  /\ voteRows = {[poll_id |-> 1, option_id |-> 1, voter_id |-> "u1"]}
  /\ readRows = {[thread_id |-> 1, user_id |-> "u1", last_read_message_id |-> 1]}
  /\ blockedRows = {}
  /\ InitClient

\* refetches of the open thread whose queries fail
NextFault ==
  \/ \E t \in {1, NoThread} : SelectThread(t)
  \/ OtherSend("u1", 1, "x", 0)
  \/ \E mid \in 1..MaxMsgs : RealtimeInsert(mid)
  \/ PushFetch
  \/ \E lost \in SUBSET FollowUps : PushFetchLossy(lost)
  \/ \E f \in fetches : FetchResolve(f)
  \/ \E f \in fetches : FetchFail(f)

SpecFault == InitFault /\ [][NextFault]_vars

\* the poll single- or multiple-choice, the user having voted option 1 or not
InitBallot ==
  /\ threadRows = <<ThreadRow(FALSE, FALSE, TRUE, MyScope, {Me, "u1"})>>
  /\ msgRows = <<MsgRow(1, "u1", "", 0)>>
  /\ \E multiple \in BOOLEAN : pollRows = (1 :> [multiple_choice |-> multiple])
  /\ optionRows = {1}
  /\ \E mine \in SUBSET {[poll_id |-> 1, option_id |-> 1, voter_id |-> Me]} :
       voteRows = {[poll_id |-> 1, option_id |-> 1, voter_id |-> "u1"]} \cup mine
  /\ readRows = {}
  /\ blockedRows = {}
  /\ InitClient

\* the poll single- or multiple-choice, the user not having voted
InitTally ==
  /\ threadRows = <<ThreadRow(FALSE, FALSE, TRUE, MyScope, {Me, "u1"})>>
  /\ msgRows = <<MsgRow(1, "u1", "", 0)>>
  /\ \E multiple \in BOOLEAN : pollRows = (1 :> [multiple_choice |-> multiple])
  /\ optionRows = {1}
  /\ voteRows = {[poll_id |-> 1, option_id |-> 1, voter_id |-> "u1"]}
  /\ readRows = {}
  /\ blockedRows = {}
  /\ InitClient

\* votes run to completion one after the other, every write succeeding
NextBallot ==
  \/ SelectThread(1)
  \/ \E i \in 1..MaxMsgs, o \in 1..NumOptions :
       (\A v \in DOMAIN votes : votes[v].pc = "done") /\ VoteTap(i, o)
  \/ \E v \in 1..MaxVotes : VoteDeleteOne(v)
  \/ \E v \in 1..MaxVotes : VoteDeleteAll(v)
  \/ \E v \in 1..MaxVotes : VoteInsert(v)
  \/ \E v \in 1..MaxVotes : VoteFetch(v)
  \/ \E f \in fetches : FetchResolve(f)

SpecBallot == InitBallot /\ [][NextBallot]_vars

Mia == <<"M", "i", "a">>
Emil == <<"E", "m", "i", "l">>
Ann == <<"A", "n", "n">>
Lee == <<"L", "e", "e">>
F1 == "F1"
F2 == "F2"
Queries == {<<>>, <<"m">>, <<"m", "i">>, <<"l", "e", "e">>}

\* A directory of two children (1, 2) and two adults (3, 4): child 1 is Mia,
\* enrolled, or enrolled once, in F1, in F2, in both or in neither; the user owns
\* F2 or not and coordinates F1 or not.
InitSearch ==
  /\ \E m1 \in {0, 3, 4}, d1 \in BOOLEAN, n2 \in {Mia, Ann}, m2 \in {3, 4},
        n3 \in {Mia, Ann}, n4 \in {Emil, Ann}, t4 \in {"guardian", "supervisor"} :
       usersTable = <<UserRow(Mia, Lee, "child", m1, d1),
                      UserRow(n2, Lee, "child", m2, FALSE),
                      UserRow(n3, Ann, "parent", 0, FALSE),
                      UserRow(n4, Ann, t4, 0, FALSE)>>
  /\ \E e1, e2 \in {"none", "enrolled", "deleted"}, e3 \in {"none", "enrolled"} :
       childrenInfo =
         {ChildInfo(1, F1, e1 = "deleted") : x \in {y \in {1} : e1 # "none"}}
         \cup {ChildInfo(1, F2, e2 = "deleted") : x \in {y \in {1} : e2 # "none"}}
         \cup {ChildInfo(2, F1, e3 = "deleted") : x \in {y \in {1} : e3 # "none"}}
  /\ coordinatorFacilities \in {{}, {F1}}
  /\ facilities \in {{}, {[id |-> F2, is_deleted |-> FALSE]},
                      {[id |-> F2, is_deleted |-> TRUE]}}
  /\ parentSearch = <<>>
  /\ parentOptions = <<>>
  /\ threadRows = <<>> /\ msgRows = <<>> /\ pollRows = <<>> /\ optionRows = {}
  /\ voteRows = {} /\ readRows = {} /\ blockedRows = {}
  /\ threads = {} /\ blockedUserIds = {} /\ effectBlocked = {}
  /\ selectedThreadId = NoThread /\ messages = <<>> /\ newMessageText = ""
  /\ rt = {} /\ fetches = {} /\ dirFetches = {}
  /\ ops = <<>> /\ votes = <<>> /\ blocks = <<>> /\ convs = <<>>
  /\ ver = 0 /\ lastLoad = NoLoad(FALSE)

\* searching recipients
NextSearch ==
  \/ \E q \in Queries : SetParentSearch(q)
  \/ SearchTimer

SpecSearch == InitSearch /\ [][NextSearch]_vars

\* the three ways of sending into the open direct thread
NextCompose ==
  \/ SelectThread(1)
  \/ \E text \in Texts : TypeText(text)
  \/ HandleSendMessage
  \/ \E k \in 1..MaxOps : SendCommit(k)
  \/ \E k \in 1..MaxOps : SendSuccess(k)
  \/ \E k \in 1..MaxOps : SendFail(k)
  \/ HandleCreatePoll(FALSE)
  \/ \E k \in 1..MaxOps : PollCommitMsg(k)
  \/ \E k \in 1..MaxOps : PollCommitPoll(k)
  \/ \E k \in 1..MaxOps : PollCommitOptions(k)
  \/ \E k \in 1..MaxOps : PollFinal(k)
  \/ \E k \in 1..MaxOps : PollTimeoutFetch(k)
  \/ \E k \in 1..MaxOps : PollFail(k)
  \/ UploadAttachment
  \/ \E k \in 1..MaxOps : UploadStored(k)
  \/ \E k \in 1..MaxOps : AttachCommit(k)
  \/ \E k \in 1..MaxOps : AttachFetch(k)
  \/ \E k \in 1..MaxOps : AttachFail(k)
  \/ \E mid \in 1..MaxMsgs : RealtimeInsert(mid)
  \/ \E f \in fetches : FetchResolve(f)

SpecCompose == InitSend /\ [][NextCompose]_vars

\* creating polls in the open direct thread, each create able to fail
NextPollFail ==
  \/ SelectThread(1)
  \/ HandleCreatePoll(FALSE)
  \/ \E k \in 1..MaxOps : PollCommitMsg(k)
  \/ \E k \in 1..MaxOps : PollCommitPoll(k)
  \/ \E k \in 1..MaxOps : PollCommitOptions(k)
  \/ \E k \in 1..MaxOps : PollFinal(k)
  \/ \E k \in 1..MaxOps : PollTimeoutFetch(k)
  \/ \E k \in 1..MaxOps : PollFail(k)
  \/ \E mid \in 1..MaxMsgs : RealtimeInsert(mid)
  \/ \E f \in fetches : FetchResolve(f)

SpecPollFail == InitSend /\ [][NextPollFail]_vars

\* the direct thread holds a poll of u1, the group thread is empty
InitRefresh ==
  /\ threadRows = <<ThreadRow(FALSE, FALSE, TRUE, MyScope, {Me, "u1"}),
                    ThreadRow(TRUE, FALSE, TRUE, MyScope, {Me, "u1", "u2"})>>
  /\ msgRows = <<MsgRow(1, "u1", "", 0)>>
  /\ pollRows = (1 :> [multiple_choice |-> FALSE])
  /\ optionRows = {1}
  /\ voteRows = {}
  /\ readRows = {}
  /\ blockedRows = {}
  /\ InitClient

\* opening and closing the two threads while the interval ticks and change
\* events arrive
NextRefresh ==
  \/ \E t \in {1, 2, NoThread} : SelectThread(t)
  \/ TimerFetch
  \/ PushFetch
  \/ \E f \in fetches : FetchResolve(f)
  \/ \E f \in fetches : FetchFail(f)

SpecRefresh == InitRefresh /\ [][NextRefresh]_vars

OtherScope == "s2"

\* Three threads: the direct thread with u1, of the actor's scope or of another;
\* a group, predefined or not, active or not, with or without the actor; the
\* direct thread with u2. Any block edges among the three users' first ones.
InitList ==
  /\ \E sc \in {MyScope, OtherScope}, p, a \in BOOLEAN,
        parts \in {{Me, "u1", "u2"}, {"u1", "u2"}} :
       threadRows = <<ThreadRow(FALSE, FALSE, TRUE, sc, {Me, "u1"}),
                      ThreadRow(TRUE, p, a, MyScope, parts),
                      ThreadRow(FALSE, FALSE, TRUE, MyScope, {Me, "u2"})>>
  /\ msgRows = <<>>
  /\ pollRows = <<>>
  /\ optionRows = {}
  /\ voteRows = {}
  /\ readRows = {}
  /\ blockedRows \in SUBSET {<<Me, "u1">>, <<Me, "u2">>, <<"u1", Me>>}
  /\ InitClient

\* the directory is loaded while the others write
NextList ==
  \/ \E u \in Others, t \in 1..MaxThreads : OtherSend(u, t, "x", 0)
  \/ \E u \in Others : HandleUnblock(u)
  \/ FetchThreadsOnMount
  \/ \E d \in dirFetches : DirResolve(d)

SpecList == InitList /\ [][NextList]_vars

\* sending texts into the open direct thread, the listener's insert events
\* and the thread effect's fetch being the only other updates of the cache
NextDeliver ==
  \/ SelectThread(1)
  \/ \E text \in Texts : TypeText(text)
  \/ HandleSendMessage
  \/ \E k \in 1..MaxOps : SendCommit(k)
  \/ \E k \in 1..MaxOps : SendSuccess(k)
  \/ \E k \in 1..MaxOps : SendFail(k)
  \/ \E mid \in 1..MaxMsgs : RealtimeInsert(mid)
  \/ \E f \in fetches : FetchResolve(f)

SpecDeliver == InitSend /\ [][NextDeliver]_vars

\* a group of the three users, empty; the actor has blocked u2
InitReads ==
  /\ threadRows = <<ThreadRow(TRUE, FALSE, TRUE, MyScope, {Me, "u1", "u2"})>>
  /\ msgRows = <<>>
  /\ pollRows = <<>>
  /\ optionRows = {}
  /\ voteRows = {}
  /\ readRows = {}
  /\ blockedRows = {<<Me, "u2">>}
  /\ InitClient

\* the others write and read while the open group is refetched, at most two
\* pushed refetches overlapping
NextReads ==
  \/ SelectThread(1)
  \/ \E u \in Others : OtherSend(u, 1, "x", 0)
  \/ \E u \in Others : OtherRead(u, 1)
  \/ Cardinality(fetches) < 2 /\ PushFetch
  \/ \E f \in fetches : FetchResolve(f)

SpecReads == InitReads /\ [][NextReads]_vars

\* texts and polls sent into the open direct thread, each write able to fail,
\* while pushed refetches, one at a time, replace the cache
NextResolve ==
  \/ SelectThread(1)
  \/ \E text \in Texts : TypeText(text)
  \/ HandleSendMessage
  \/ \E k \in 1..MaxOps : SendCommit(k)
  \/ \E k \in 1..MaxOps : SendSuccess(k)
  \/ \E k \in 1..MaxOps : SendFail(k)
  \/ HandleCreatePoll(FALSE)
  \/ \E k \in 1..MaxOps : PollCommitMsg(k)
  \/ \E k \in 1..MaxOps : PollCommitPoll(k)
  \/ \E k \in 1..MaxOps : PollCommitOptions(k)
  \/ \E k \in 1..MaxOps : PollFinal(k)
  \/ \E k \in 1..MaxOps : PollTimeoutFetch(k)
  \/ \E k \in 1..MaxOps : PollFail(k)
  \/ fetches = {} /\ PushFetch
  \/ \E f \in fetches : FetchResolve(f)

SpecResolve == InitSend /\ [][NextResolve]_vars

\* overlapping votes in the open thread, their writes able to fail; besides the
\* refetch of each vote, the timer's refetch reads the store while a vote's
\* writes are under way
NextTally ==
  \/ SelectThread(1)
  \/ \E i \in 1..MaxMsgs, o \in 1..NumOptions : VoteTap(i, o)
  \/ \E v \in 1..MaxVotes : VoteDeleteOne(v)
  \/ \E v \in 1..MaxVotes : VoteDeleteAll(v)
  \/ \E v \in 1..MaxVotes : VoteInsert(v)
  \/ \E v \in 1..MaxVotes : VoteWriteFail(v)
  \/ \E v \in 1..MaxVotes : VoteFetch(v)
  \/ /\ fetches = {}
     /\ \E v \in DOMAIN votes : votes[v].pc \in {"deleteOne", "deleteAll", "insert"}
     /\ TimerFetch
  \/ \E f \in fetches : FetchResolve(f)

SpecTally == InitTally /\ [][NextTally]_vars

\* voting in the open thread
NextVote ==
  \/ SelectThread(1)
  \/ \E i \in 1..MaxMsgs, o \in 1..NumOptions : VoteTap(i, o)
  \/ \E v \in 1..MaxVotes : VoteDeleteOne(v)
  \/ \E v \in 1..MaxVotes : VoteDeleteAll(v)
  \/ \E v \in 1..MaxVotes : VoteInsert(v)
  \/ \E v \in 1..MaxVotes : VoteWriteFail(v)
  \/ \E v \in 1..MaxVotes : VoteFetch(v)
  \/ TimerFetch
  \/ \E f \in fetches : FetchResolve(f)
  \/ \E f \in fetches : FetchFail(f)

SpecVote == InitVote /\ [][NextVote]_vars

\* blocking and unblocking senders of the open thread
NextBlock ==
  \/ SelectThread(1)
  \/ OtherSend("u1", 1, "x", 0)
  \/ \E mid \in 1..MaxMsgs : RealtimeInsert(mid)
  \/ BlockTap("u1")
  \/ \E b \in 1..MaxBlocks : BlockCommit(b)
  \/ \E b \in 1..MaxBlocks : BlockFail(b)
  \/ \E b \in 1..MaxBlocks : BlockApply(b)
  \/ HandleUnblock("u1")
  \/ \E d \in dirFetches : DirResolve(d)
  \/ PushFetch
  \/ \E f \in fetches : FetchResolve(f)
  \/ \E f \in fetches : FetchFail(f)

SpecBlock == InitChat /\ [][NextBlock]_vars

\* blocking and unblocking from the open direct thread, nobody sending
NextDirectory ==
  \/ SelectThread(1)
  \/ BlockTap("u1")
  \/ \E b \in 1..MaxBlocks : BlockCommit(b)
  \/ \E b \in 1..MaxBlocks : BlockFail(b)
  \/ \E b \in 1..MaxBlocks : BlockApply(b)
  \/ HandleUnblock("u1")
  \/ \E d \in dirFetches : DirResolve(d)
  \/ \E f \in fetches : FetchResolve(f)
  \/ \E f \in fetches : FetchFail(f)

SpecDirectory == InitChat /\ [][NextDirectory]_vars

\* blocking with senders active, the history of merged fetchMessages calls
\* switched on
InitLoad ==
  /\ threadRows = <<ThreadRow(FALSE, FALSE, TRUE, MyScope, {Me, "u1"}),
                    ThreadRow(TRUE, FALSE, TRUE, MyScope, {Me, "u1", "u2"})>>
  /\ msgRows = <<MsgRow(1, "u1", "x", 0)>>
  /\ pollRows = <<>>
  /\ optionRows = {}
  /\ voteRows = {}
  /\ readRows = {}
  /\ blockedRows = {}
  /\ threads = ListThreads(Me, MyScope, BlockedBy(Me))
  /\ blockedUserIds = BlockedBy(Me)
  /\ effectBlocked = {}
  /\ selectedThreadId = NoThread
  /\ messages = <<>>
  /\ newMessageText = ""
  /\ usersTable = <<>>
  /\ childrenInfo = {}
  /\ coordinatorFacilities = {}
  /\ facilities = {}
  /\ parentSearch = <<>>
  /\ parentOptions = <<>>
  /\ rt = {}
  /\ fetches = {}
  /\ dirFetches = {}
  /\ ops = <<>>
  /\ votes = <<>>
  /\ blocks = <<>>
  /\ convs = <<>>
  /\ ver = 0
  /\ lastLoad = NoLoad(TRUE)

SpecLoad == InitLoad /\ [][NextBlock]_vars

\* refetches of the open thread overlapping each other, the inserts of u1 and
\* the user's moves between the threads, some refetches failing; the store's
\* writes are counted
NextOverlap ==
  \/ \E t \in {1, 2, NoThread} : SelectThread(t)
  \/ \E t \in {1, 2} : OtherSend("u1", t, "x", 0)
  \/ PushFetch
  \/ \E f \in fetches : FetchResolve(f)
  \/ \E f \in fetches : FetchFail(f)

SpecOverlap == InitLoad /\ [][NextOverlap]_vars

\* moving between threads while fetches are in flight
NextNav ==
  \/ \E t \in {1, 2, NoThread} : SelectThread(t)
  \/ \E u \in Others, t \in 1..2 : OtherSend(u, t, "x", 0)
  \/ \E mid \in 1..MaxMsgs : RealtimeInsert(mid)
  \/ PushFetch
  \/ \E f \in fetches : FetchResolve(f)
  \/ \E f \in fetches : FetchFail(f)

SpecNav == InitChat /\ [][NextNav]_vars

\* the store may already hold the direct thread with u1, and the actor may
\* already have blocked u1
InitThreads ==
  /\ threadRows \in {<<>>, <<ThreadRow(FALSE, FALSE, TRUE, MyScope, {Me, "u1"})>>}
  /\ msgRows = <<>>
  /\ pollRows = <<>>
  /\ optionRows = {}
  /\ voteRows = {}
  /\ readRows = {}
  /\ blockedRows \in {{}, {<<Me, "u1">>}}
  /\ InitClient

\* starting conversations from the messages screen and from the dialog
NextThreads ==
  \/ \E u \in Others, text \in {"", "a"} : HandleStartConversation(u, text)
  \/ \E u \in Others : SendToUser(u)
  \/ \E c \in 1..MaxConvs, t \in 0..MaxThreads : DialogFind(c, t)
  \/ \E c \in 1..MaxConvs : ConvCreateThread(c)
  \/ \E c \in 1..MaxConvs : ConvCreateFail(c)
  \/ \E c \in 1..MaxConvs : ConvAddParticipants(c)
  \/ \E c \in 1..MaxConvs : ConvSendMessage(c)
  \/ \E c \in 1..MaxConvs : ConvRefresh(c)
  \/ \E c \in 1..MaxConvs : ConvSelect(c)
  \/ \E f \in fetches : FetchResolve(f)
  \/ \E f \in fetches : FetchFail(f)

SpecThreads == InitThreads /\ [][NextThreads]_vars

\* ------------------------------------------------------------------ claims
\* C1: for every unordered pair of users the store holds at most one non-group
\* thread whose participants are the two of them, whatever the interleaving of
\* handleStartConversation and sendToUser.
C1_OneDirectThreadPerPair ==
  \A a, b \in Users :
    a # b =>
      Cardinality({t \in ThreadIds :
                     ~threadRows[t].is_group /\ threadRows[t].parts = {a, b}}) <= 1

\* two ids name the same logical message: the same id, or the temporary id of
\* an operation and the id of the row that operation inserted
SameLogical(x, y) ==
  \/ x = y
  \/ \E k \in DOMAIN ops : ops[k].id # 0 /\ {x, y} = {TempId(k), ops[k].id}

\* C2: a displayed poll is never silently erased. Whenever a timer- or push-
\* triggered loadMessages merges while the thread stays open, every cache entry
\* that showed a poll (the optimistic placeholder included) is still shown, as
\* the same logical message, with poll data after the merge.
C2_PollNeverErased ==
  [][\A f \in fetches :
       (/\ FetchResolve(f)
        /\ f.by \in {"timer", "push"}
        /\ f.thread_id = selectedThreadId)
         => \A i \in DOMAIN messages :
              HasPoll(messages[i])
                => \E j \in DOMAIN messages' :
                     /\ SameLogical(messages[i].id, messages'[j].id)
                     /\ HasPoll(messages'[j])]_vars

\* what the merge rule asks of the cache after authoritative list `auth` is
\* merged into cache `prev`, giving `merged`
MergedAsRuled(prev, auth, merged) ==
  /\ Len(merged) = Len(auth)
  /\ \A i \in DOMAIN auth :
       LET a == auth[i]
           cachedPolls == {prev[j].poll : j \in {x \in DOMAIN prev :
                                                   prev[x].id = a.id /\ HasPoll(prev[x])}}
       IN IF a.content = "" /\ a.attachments = 0 /\ ~HasPoll(a) /\ cachedPolls # {}
          THEN \E p \in cachedPolls : merged[i] = [a EXCEPT !.poll = p]
          ELSE merged[i] = a

\* C3: a merge of loadMessages keeps the cached poll of exactly the ids whose
\* authoritative entry has an empty body, no attachments and no poll while the
\* cache holds a poll under that id, and takes the authoritative entry for every
\* other id; a realtime insert event of an empty message, or of an id the cache
\* already holds, leaves the cache unchanged.
C3_MergeRule ==
  [][/\ \A f \in fetches :
          FetchResolve(f) => MergedAsRuled(messages, f.result, messages')
     /\ \A mid \in rt :
          (/\ RealtimeInsert(mid)
           /\ \/ msgRows[mid].body = "" /\ msgRows[mid].attachments = 0
              \/ \E i \in DOMAIN messages : messages[i].id = mid)
            => messages' = messages]_vars

\* C3's case: a snapshot read between the creation of a poll's message and of
\* its poll row has been merged (the caller's read cursor points to the poll's
\* message) and the cache kept the finalised poll of that message
C3_Witness ==
  \E i \in DOMAIN messages :
    /\ ~IsTemp(messages[i].id)
    /\ messages[i].content = ""
    /\ HasPoll(messages[i])
    /\ \E o \in DOMAIN PollOf(messages[i]).options :
         PollOf(messages[i]).options[o].id = OptNew(o)
    /\ \E r \in readRows :
         r.user_id = Me /\ r.last_read_message_id = messages[i].id

\* the submitted operation a cache entry stands for (0: none): the entry is
\* the operation's placeholder or carries the id of the row it inserted
OpOf(m) ==
  IF \E k \in DOMAIN ops : m.id = TempId(k) \/ (ops[k].id # 0 /\ m.id = ops[k].id)
  THEN CHOOSE k \in DOMAIN ops : m.id = TempId(k) \/ (ops[k].id # 0 /\ m.id = ops[k].id)
  ELSE 0

\* C8: the actor's outgoing messages appear in the cache in submission order:
\* of two entries standing for different submitted operations, the one nearer
\* the head was submitted later.
C8_OutgoingInSubmissionOrder ==
  \A i, j \in DOMAIN messages :
    (i < j /\ OpOf(messages[i]) # 0 /\ OpOf(messages[j]) # 0)
      => OpOf(messages[i]) >= OpOf(messages[j])

\* C4: once all of the actor's vote operations have resolved, the store holds at
\* most one vote row of the actor for every single-choice poll.
C4_SingleChoiceOneVote ==
  (\A v \in DOMAIN votes : votes[v].pc \in {"fetch", "done"})
    => \A p \in DOMAIN pollRows :
         ~pollRows[p].multiple_choice
           => Cardinality({r \in voteRows : r.poll_id = p /\ r.voter_id = Me}) <= 1

\* C5: the cache holds no message of a thread other than the selected one, and
\* is empty while no thread is selected (a fetch for a thread the user has left
\* is discarded).
C5_CacheOfSelectedThread ==
  /\ selectedThreadId = NoThread => messages = <<>>
  /\ \A i \in DOMAIN messages :
       ~IsTemp(messages[i].id)
         => msgRows[messages[i].id].thread_id = selectedThreadId

\* C6: once a block of `target` made in an open thread has been performed (and
\* the edge is still in the store, no further block of the target being midway),
\* the cache holds no message sent by the target.
C6_BlockedStaysPurged ==
  \A b \in DOMAIN blocks :
    (/\ blocks[b].pc = "done"
     /\ blocks[b].thread_id # NoThread
     /\ <<Me, blocks[b].target>> \in blockedRows
     /\ \A c \in DOMAIN blocks :
          blocks[c].target = blocks[b].target => blocks[c].pc # "committed")
      => \A i \in DOMAIN messages : messages[i].sender_id # blocks[b].target

\* the direct threads of the actor's scope whose participants are Me and b
DirectWith(b) ==
  {t \in ThreadIds :
     /\ ~threadRows[t].is_group
     /\ threadRows[t].parts = {Me, b}
     /\ threadRows[t].supervisor_id = MyScope
     /\ ~(threadRows[t].is_predefined /\ ~threadRows[t].active)}

\* C7: blocking is asymmetric and non-destructive. A direct thread T of A and B is
\* in listThreads(A) exactly while A has no block edge to B (so unblock brings it
\* back), T stays in listThreads(B) whatever A blocks, and no step that adds or
\* removes a block edge changes a thread row or a message row.
C7_BlockAsymmetric ==
  /\ [](\A b \in Others : \A t \in DirectWith(b) :
          /\ t \in ListThreads(Me, MyScope, BlockedBy(Me)) <=> <<Me, b>> \notin blockedRows
          /\ <<b, Me>> \notin blockedRows => t \in ListThreads(b, MyScope, BlockedBy(b)))
  /\ [][blockedRows' # blockedRows
          => threadRows' = threadRows /\ msgRows' = msgRows]_vars

\* C7's case: the actor has blocked u1 from the open direct thread, and the
\* refreshed directory no longer lists that thread
C7_Witness ==
  /\ \E b \in DOMAIN blocks : blocks[b].pc = "done" /\ blocks[b].target = "u1"
  /\ <<Me, "u1">> \in blockedRows
  /\ DirectWith("u1") # {}
  /\ threads \cap DirectWith("u1") = {}
  /\ blockedUserIds = {"u1"}

\* C9: when the insert of send k succeeds, the entry under k's temporary id takes
\* the real id where it stands and every other entry stays where it is; when the
\* insert fails, the placeholder leaves the cache, the other entries keep their
\* order, and the composer holds the text that was submitted.
C9_SendTextCompletion ==
  [][\A k \in DOMAIN ops :
       /\ SendSuccess(k)
            => /\ Len(messages') = Len(messages)
               /\ \A i \in DOMAIN messages :
                    messages'[i] = IF messages[i].id = TempId(k)
                                   THEN [messages[i] EXCEPT !.id = ops[k].id]
                                   ELSE messages[i]
       /\ SendFail(k)
            => LET keep == {i \in DOMAIN messages : messages[i].id # TempId(k)}
               IN /\ Len(messages') = Cardinality(keep)
                  /\ \A i \in keep :
                       messages'[Cardinality({j \in keep : j <= i})] = messages[i]
                  /\ newMessageText' = ops[k].text]_vars

\* C9's case: two texts were submitted and the first one's insert has succeeded:
\* its entry, under the real id, stands behind the second one's placeholder
C9_Witness ==
  /\ Len(ops) = 2
  /\ ops[1].kind = "text" /\ ops[1].pc = "done"
  /\ Len(messages) = 2
  /\ messages[1].id = TempId(2)
  /\ messages[2].id = ops[1].id

\* C10: loadMessages is idempotent. When a call resolves that was issued after
\* the last merged call on the same thread had resolved, no other call having
\* merged since, and that read the store in the state the last merged call had
\* read it, the cache it leaves is the cache the last merged call left.
C10_LoadIdempotent ==
  [][\A f \in fetches :
       (/\ FetchResolve(f)
        /\ lastLoad.track
        /\ f.after = lastLoad
        /\ f.ver = lastLoad.ver
        /\ f.thread_id = lastLoad.thread_id)
         => messages' = lastLoad.cache]_vars

\* C11: a loadMessages call one of whose queries fails leaves the cache as it
\* was: the message query (the call ends without a merge) as well as the read-
\* cursor query and the per-message poll, option and vote queries.
C11_FailedFetchKeepsCache ==
  [][\A f \in fetches :
       /\ FetchFail(f) => messages' = messages
       /\ (FetchResolve(f) /\ f.lost # {}) => messages' = messages]_vars

\* C12: when a remote write of a vote fails, the optimistic change is rolled
\* back: once the failure has resolved, every option of the cached poll has the
\* count and the selected flag it had before the vote was applied.
C12_FailedVoteRolledBack ==
  [][\A v \in DOMAIN votes :
       (Len(votes) = 1 /\ VoteWriteFail(v)) =>
         \A i \in DOMAIN messages' :
           (HasPoll(messages'[i]) /\ PollOf(messages'[i]).id = votes[v].poll_id)
             => PollOf(messages'[i]).options = votes[v].before]_vars

\* the row of the user's vote of handleVote call v
MyRow(v) == [poll_id |-> votes[v].poll_id, option_id |-> votes[v].option_id,
             voter_id |-> Me]

\* C13: a vote run to completion without overlap changes the store thus: if the
\* option was selected by the voter, exactly the voter's row for that option is
\* deleted; otherwise the voter's row for the option is inserted, after deletion
\* of all the voter's rows for the poll if the poll is single-choice and without
\* any deletion if it is multiple-choice. Rows of other voters never change, and
\* Yes then No on a single-choice poll leaves the voter's one row on No.
C13_VoteStoreEffect ==
  /\ [][\A v \in DOMAIN votes :
          /\ VoteDeleteOne(v) =>
               /\ votes[v].currentSelected
               /\ voteRows' = votes[v].rows \ {MyRow(v)}
          /\ VoteInsert(v) =>
               /\ ~votes[v].currentSelected
               /\ voteRows' =
                    (IF votes[v].multiple THEN votes[v].rows
                     ELSE {r \in votes[v].rows :
                             ~(r.poll_id = votes[v].poll_id /\ r.voter_id = Me)})
                    \cup {MyRow(v)}
          /\ VoteDeleteAll(v) => ~votes[v].multiple /\ ~votes[v].currentSelected]_vars
  /\ []((/\ Len(votes) = 2
         /\ \A v \in 1..2 : /\ votes[v].pc \in {"fetch", "done"}
                             /\ ~votes[v].multiple /\ ~votes[v].currentSelected
                             /\ votes[v].option_id = v)
          => {r \in voteRows : r.voter_id = Me} = {MyRow(2)})
  /\ [][{r \in voteRows' : r.voter_id # Me} = {r \in voteRows : r.voter_id # Me}]_vars

\* Yes then No on a single-choice poll, both written
C13_Witness ==
  /\ Len(votes) = 2
  /\ \A v \in 1..2 : /\ votes[v].pc = "done"
                      /\ ~votes[v].multiple /\ ~votes[v].currentSelected
                      /\ votes[v].option_id = v
  /\ voteRows = {[poll_id |-> 1, option_id |-> 1, voter_id |-> "u1"],
                 [poll_id |-> 1, option_id |-> 2, voter_id |-> Me]}

\* child c holds a relationship record of an accessible facility that is not deleted
InScope(c) ==
  \E ci \in childrenInfo :
    ci.user_id = c /\ ~ci.is_deleted /\ ci.facility_id \in FacilityIds

\* user u matches the text q
Matched(u, q) ==
  /\ ~usersTable[u].is_deleted
  /\ ILike(usersTable[u].first_name, q) \/ ILike(usersTable[u].family_name, q)

\* C14: every recipient a search returns is a matched guardian with a managed
\* child in scope, or the guardian of a matched child in scope; a user with no
\* accessible facility is offered nobody.
C14_SearchWithinScope ==
  /\ [][(SearchTimer /\ Len(parentSearch) >= 2) =>
          \A i \in DOMAIN parentOptions' :
            LET r == parentOptions'[i].id
            IN \E c \in DOMAIN usersTable :
                 /\ usersTable[c].manager_id = r
                 /\ InScope(c)
                 /\ \/ /\ Matched(r, parentSearch)
                       /\ usersTable[r].user_type \in {"parent", "guardian"}
                    \/ /\ Matched(c, parentSearch)
                       /\ usersTable[c].user_type = "child"]_vars
  /\ [](FacilityIds = {} => parentOptions = <<>>)

\* Two children called Mia have been searched by a user whose facilities are
\* {F1}: the guardian of the one enrolled in F1 is offered, the guardian of the
\* one enrolled in F2 alone is not
C14_Witness ==
  /\ parentSearch = <<"m", "i">>
  /\ FacilityIds = {F1}
  /\ usersTable[1].manager_id = 3 /\ ~usersTable[1].is_deleted
  /\ usersTable[2].manager_id = 4 /\ usersTable[2].first_name = Mia
  /\ childrenInfo = {ChildInfo(1, F2, FALSE), ChildInfo(2, F1, FALSE)}
  /\ Len(parentOptions) = 1 /\ parentOptions[1].id = 4

\* C15: the recipients a search returns hold no user twice, are in the order of
\* their names and hold no child-role user: the guardian of every accepted child
\* match is among them in the child's stead, once, also when the guardian's own
\* name matches.
C15_SearchDedupedSorted ==
  [][(SearchTimer /\ Len(parentSearch) >= 2) =>
      /\ \A i, j \in DOMAIN parentOptions' :
           parentOptions'[i].id = parentOptions'[j].id => i = j
      /\ \A i, j \in DOMAIN parentOptions' :
           i < j => LocaleCompare(parentOptions'[i].name, parentOptions'[j].name) <= 0
      /\ \A i \in DOMAIN parentOptions' :
           usersTable[parentOptions'[i].id].user_type # "child"
      /\ \A c \in DOMAIN usersTable :
           (/\ usersTable[c].user_type = "child"
            /\ Matched(c, parentSearch)
            /\ InScope(c)
            /\ usersTable[c].manager_id # 0)
             => \E i \in DOMAIN parentOptions' :
                  parentOptions'[i].id = usersTable[c].manager_id]_vars

\* guardian 3, called Mia, is found by name and through child 1, guardian 4,
\* called Emil, through child 2: Emil comes first and each is offered once
C15_Witness ==
  /\ parentSearch = <<"m", "i">>
  /\ usersTable[1].manager_id = 3 /\ ~usersTable[1].is_deleted /\ InScope(1)
  /\ usersTable[2].manager_id = 4 /\ usersTable[2].first_name = Mia /\ InScope(2)
  /\ usersTable[3].first_name = Mia
  /\ usersTable[4].first_name = Emil
  /\ parentOptions = <<ParentOption(4), ParentOption(3)>>

\* C16: when the creation of a direct thread fails because the thread of the two
\* participants exists by now, the operation finds that thread and delivers its
\* message into it: no operation carrying a text has ended in failure while the
\* store holds the direct thread of the pair without that message.
C16_ConflictReusesThread ==
  \A c \in DOMAIN convs :
    (convs[c].pc = "failed" /\ convs[c].text # "") =>
      \A t \in ThreadIds :
        (~threadRows[t].is_group /\ threadRows[t].parts = {Me, convs[c].target}) =>
          \E i \in DOMAIN msgRows :
            /\ msgRows[i].thread_id = t
            /\ msgRows[i].sender_id = Me
            /\ msgRows[i].body = convs[c].text

\* C17: sendText, sendAttachment and sendPoll each put a placeholder with a
\* temporary id at the head of the cache before their first remote operation
\* starts: the step that starts operation k leaves TempId(k) at the head.
C17_PlaceholderFirst ==
  [][Len(ops') = Len(ops) + 1 =>
      /\ messages' # <<>>
      /\ Head(messages').id = TempId(Len(ops'))]_vars

\* C18: when a create of sendPoll fails, the placeholder leaves the cache and
\* the store is left as it is: no row is deleted, so the empty-body message row
\* stays if the message insert had succeeded, and nothing was written if the
\* message insert itself failed. No placeholder of a failed sendPoll is in the
\* cache afterwards.
C18_PollPartialFailure ==
  /\ [][\A k \in DOMAIN ops :
          PollFail(k) =>
            /\ store' = store
            /\ \A i \in DOMAIN messages' : messages'[i].id # TempId(k)
            /\ IF ops[k].pc = "msg"
               THEN ops[k].id = 0
               ELSE /\ ops[k].id \in DOMAIN msgRows'
                    /\ msgRows'[ops[k].id] = MsgRow(ops[k].thread_id, Me, "", 0)]_vars
  /\ [](\A k \in DOMAIN ops :
          (ops[k].kind = "poll" /\ ops[k].pc = "failed") =>
            \A i \in DOMAIN messages : messages[i].id # TempId(k))

\* the poll insert of the first sendPoll has failed after its message insert:
\* the message row is in the store without a poll, the placeholder is gone
C18_Witness ==
  /\ Len(ops) >= 1
  /\ ops[1].kind = "poll" /\ ops[1].pc = "failed" /\ ops[1].id # 0
  /\ msgRows[ops[1].id].body = ""
  /\ ops[1].id \notin DOMAIN pollRows
  /\ selectedThreadId = 1
  /\ \A i \in DOMAIN messages : ~IsTemp(messages[i].id)

\* C19: the interval issues a loadMessages only when the cache holds a message
\* carrying a poll, and neither the interval nor a change event issues a
\* loadMessages for a thread whose view is closed: every such call is for the
\* thread open at that moment.
C19_RefreshOnlyWhileOpen ==
  [][\A f \in fetches' \ fetches :
       /\ f.by = "timer" => \E i \in DOMAIN messages : HasPoll(messages[i])
       /\ f.by \in {"timer", "push"} =>
            /\ selectedThreadId # NoThread
            /\ f.thread_id = selectedThreadId]_vars

\* the interval has refetched the direct thread, whose view was closed since:
\* the cache is empty again and the call is still in flight
C19_Witness ==
  /\ selectedThreadId = NoThread
  /\ messages = <<>>
  /\ \E f \in fetches : f.by = "timer" /\ f.thread_id = 1

\* C20: a call of listThreads returns exactly the threads of the actor's scope
\* that list the actor as a participant, are not predefined and inactive, and
\* are not direct threads with a user of the actor's Block List; a group is kept
\* whoever is in it; the preview of each returned thread is its newest message.
C20_ListThreadsExact ==
  [][\A d \in dirFetches' \ dirFetches :
       /\ d.threads =
            {t \in ThreadIds :
               /\ threadRows[t].supervisor_id = MyScope
               /\ Me \in threadRows[t].parts
               /\ ~(threadRows[t].is_predefined /\ ~threadRows[t].active)
               /\ ~(/\ ~threadRows[t].is_group
                     /\ \E other \in threadRows[t].parts \ {Me} :
                          <<Me, other>> \in blockedRows)}
       /\ DOMAIN d.last_message = d.threads
       /\ \A t \in d.threads :
            LET of_t == {i \in DOMAIN msgRows : msgRows[i].thread_id = t}
            IN IF of_t = {} THEN d.last_message[t] = 0
               ELSE /\ d.last_message[t] \in of_t
                    /\ \A i \in of_t : i <= d.last_message[t]]_vars

\* a call in flight returned the group although u1, who is blocked, is in it and
\* wrote its two messages, of which the second is the preview; the direct
\* thread with u1 is not returned
C20_Witness ==
  \E d \in dirFetches :
    /\ <<Me, "u1">> \in blockedRows
    /\ threadRows[1].supervisor_id = MyScope
    /\ 1 \notin d.threads
    /\ 2 \in d.threads /\ "u1" \in threadRows[2].parts
    /\ 3 \in d.threads
    /\ Len(msgRows) = 2 /\ msgRows[1].thread_id = 2 /\ msgRows[2].thread_id = 2
    /\ d.last_message[2] = 2 /\ d.last_message[3] = 0

\* the ids of a list of messages, in its order
IdsOf(list) == [i \in DOMAIN list |-> list[i].id]

\* C21: the list a loadMessages call produces holds exactly the fetched messages
\* sent by the caller or by a user who is not in the caller's Block List, in the
\* fetched order (newest first). Stated for calls issued while the Block List
\* the screen holds is the one the store holds.
C21_BlockedFilterExact ==
  [][\A f \in fetches' \ fetches :
       blockedUserIds = BlockedBy(Me) =>
         IdsOf(f.result) =
           FilterSeq(ThreadMsgs(f.thread_id),
                     LAMBDA i : \/ msgRows[i].sender_id = Me
                                \/ msgRows[i].sender_id \notin BlockedBy(Me))]_vars

C23_MarkRead ==
  /\ [][\A f \in fetches' \ fetches :
          LET fetched == {i \in DOMAIN msgRows : msgRows[i].thread_id = f.thread_id}
          IN IF fetched = {} THEN f.latest = 0
             ELSE f.latest \in fetched /\ \A i \in fetched : i <= f.latest]_vars
  /\ [][\A f \in fetches :
          FetchResolve(f) =>
            IF f.latest = 0
            THEN readRows' = readRows
            ELSE /\ {r \in readRows' : r.thread_id = f.thread_id /\ r.user_id = Me}
                      = {[thread_id |-> f.thread_id, user_id |-> Me,
                          last_read_message_id |-> f.latest]}
                 /\ UpsertRead(readRows', f.thread_id, Me, f.latest) = readRows'
                 /\ {r \in readRows' : r.user_id # Me} = {r \in readRows : r.user_id # Me}]_vars

\* two messages are in the store and in the cache, every call has gone
\* through, and the caller's one cursor is on the newer message
C23_Witness ==
  /\ Len(msgRows) = 2
  /\ {r \in readRows : r.user_id = Me}
       = {[thread_id |-> 1, user_id |-> Me, last_read_message_id |-> 2]}
  /\ \E i \in DOMAIN messages : messages[i].id = 1
  /\ \E r \in readRows : r.user_id = "u1"
  /\ fetches = {}

\* C24: a cached single-choice poll never shows more than one option selected by
\* the voter, in any state reached by interleaving votes with the fetches that
\* reconcile the cache with the store.
C24_CachedSingleChoiceOneSelected ==
  \A i \in DOMAIN messages :
    (HasPoll(messages[i]) /\ ~PollOf(messages[i]).multiple_choice)
      => Cardinality({o \in DOMAIN PollOf(messages[i]).options :
                        PollOf(messages[i]).options[o].selected}) <= 1

\* C25: the cache never holds two entries with the same id, however the
\* completion of a send, the listener's insert event for the same message and
\* the fetches interleave.
C25_CacheIdsUnique ==
  \A i, j \in DOMAIN messages : messages[i].id = messages[j].id => i = j

\* C26: once the remote operations of a send (text or poll) have resolved, with
\* success or not, the cache holds no entry with the send's temporary id; a
\* fetch of the thread issued after a send has succeeded returns the sent
\* message, and the cache holds every message of a fetch's list once its
\* response is handled, whatever replaced the cache while the send was in flight.
C26_PlaceholderResolved ==
  /\ [](\A k \in DOMAIN ops :
          ops[k].pc \in {"timeout", "done", "failed"}
            => \A i \in DOMAIN messages : messages[i].id # TempId(k))
  /\ [][\A f \in fetches' \ fetches : \A k \in DOMAIN ops :
          (ops[k].pc \in {"timeout", "done"} /\ ops[k].thread_id = f.thread_id)
            => \E i \in DOMAIN f.result : f.result[i].id = ops[k].id]_vars
  /\ [][\A f \in fetches :
          FetchResolve(f) => IdsOf(messages') = IdsOf(f.result)]_vars

\* the first send has succeeded and a later fetch has put its message into the
\* cache under its real id; a fetch has dropped the placeholder of the second
\* send, which is still in flight
C26_Witness ==
  /\ Len(ops) = 2
  /\ ops[1].pc = "done"
  /\ \E i \in DOMAIN messages : messages[i].id = ops[1].id
  /\ ops[2].pc \in {"committed", "poll", "opts", "final"}
  /\ \A i \in DOMAIN messages : messages[i].id # TempId(2)
  /\ fetches = {}

\* C27: when the response of a call of loadMessages is handled after the
\* response of a call of the same thread that was issued later (after a write
\* the first call has not seen), the cache stays as the later-issued call left
\* it; and a call issued when no write is newer than its snapshot, as the first
\* successful one after a failed fetch, leaves the cache equal to the list the
\* store gives now.
C27_LaterIssuedCallWins ==
  [][\A f \in fetches :
       FetchResolve(f) =>
         /\ (lastLoad.thread_id = f.thread_id /\ f.ver < lastLoad.ver)
              => messages' = lastLoad.cache
         /\ f.ver = ver
              => messages' = FormatMessages(f.thread_id, BlockedBy(Me))]_vars

\* C28: the caller's read cursor of a thread never moves backward: after every
\* upsert of a loadMessages call the cursor's message is the one it pointed to
\* before or a newer one (message ids grow with the time of the insert).
C28_CursorNeverBackward ==
  [][\A r \in readRows : \A q \in readRows' :
       (r.user_id = Me /\ q.user_id = Me /\ q.thread_id = r.thread_id)
         => q.last_read_message_id >= r.last_read_message_id]_vars

C30_ReadByMonotone ==
  [][\A f \in fetches' \ fetches :
       \A i \in DOMAIN f.result :
         /\ Me \notin f.result[i].readBy
         /\ \A j \in DOMAIN f.result :
              i < j => f.result[i].readBy \subseteq f.result[j].readBy]_vars

\* a call in flight whose list gives u1 as reader of the older message only,
\* the caller's own cursor being in the store
C30_Witness ==
  /\ \E r \in readRows : r.user_id = Me /\ r.thread_id = 1
  /\ \E f \in fetches :
       /\ Len(f.result) = 2
       /\ f.result[1].readBy = {}
       /\ f.result[2].readBy = {"u1"}

====
